---- MODULE Spec2Model ----
(***************************************************************************)
(* A model of src/queue/payouts.rs: the daily distribution job             *)
(* (process_payout), the PayPal credential cache, the payout-method        *)
(* catalog and the per-user lock registry of PayoutsQueue.                 *)
(***************************************************************************)
EXTENDS Integers, Sequences, FiniteSets, TLC

(***************************************************************************)
(* Bounds of the model.                                                    *)
(***************************************************************************)
\* Decimal places kept by the model's Decimal (rust_decimal keeps up to 28).
DecimalScale == 2
\* Concurrent or sequential invocations of process_payout.
NumRuns == 2
\* The last calendar day Utc::now() reaches (days count from a Monday).
LastDay == 6

\* The calendar day on which the model starts: with LastDay a Sunday, the
\* first target day (yesterday) is a Friday and the next one a Saturday.
FirstDay == LastDay - 1

Runs == 1..NumRuns
UserIds == 1..3

(***************************************************************************)
(* Decimal: rust_decimal::Decimal as a fixed-point number, an integer      *)
(* count of 10^-DecimalScale units.  Results that fit the scale are exact, *)
(* the others are rounded half to even, as rust_decimal rounds what does   *)
(* not fit its 28 places.  The operators keep every intermediate value     *)
(* inside TLC's 32-bit integers.                                           *)
(***************************************************************************)
RECURSIVE Pow10(_)
Pow10(n) == IF n = 0 THEN 1 ELSE 10 * Pow10(n - 1)

DecimalOne == Pow10(DecimalScale)

Abs(x) == IF x < 0 THEN 0 - x ELSE x

Sign(x) == IF x < 0 THEN 0 - 1 ELSE 1

\* q + rem/d rounded half to even, for q >= 0, 0 <= rem < d.
RoundHalfEven(q, rem, d) ==
    IF 2 * rem > d \/ (2 * rem = d /\ q % 2 = 1) THEN q + 1 ELSE q

DecimalFrom(n) == n * DecimalOne

DecimalZero == DecimalFrom(0)

DecimalAdd(a, b) == a + b

\* a / b, b # 0 (rust_decimal panics on a zero divisor).
DecimalDiv(a, b) ==
    LET n == Abs(a)
        d == Abs(b)
        whole == n \div d
        r == n % d
        frac == (r * DecimalOne) \div d
        rem == (r * DecimalOne) % d
    IN  Sign(a) * Sign(b) * RoundHalfEven(whole * DecimalOne + frac, rem, d)

\* a * b
DecimalMul(a, b) ==
    LET n == Abs(a)
        m == Abs(b)
        whole == m \div DecimalOne
        part == m % DecimalOne
        q == n * whole + ((n * part) \div DecimalOne)
        rem == (n * part) % DecimalOne
    IN  Sign(a) * Sign(b) * RoundHalfEven(q, rem, DecimalOne)

(***************************************************************************)
(* Time of the distribution job: calendar days, and the Unix timestamps    *)
(* the analytics queries bind.                                             *)
(***************************************************************************)
SecondsPerDay == 86400

\* DateTime at 00:00:00 of calendar day d, as a Unix timestamp.
DayStart(d) == d * SecondsPerDay

\* chrono's Weekday of calendar day d: 0 = Mon ... 5 = Sat, 6 = Sun.
Weekday(d) == d % 7

IsWeekend(d) == Weekday(d) = 5 \/ Weekday(d) = 6

(***************************************************************************)
(* State.                                                                  *)
(***************************************************************************)
VARIABLES
    \* -- the relational store, the analytics store, the environment --
    today,              \* the calendar day of Utc::now()
    budget,             \* PAYOUTS_BUDGET, 0 when unset or unparsable
    mods,               \* table mods: rows [id, team_id, monetization_status]
    team_members,       \* table team_members, in heap order:
                        \*   rows [team_id, user_id, accepted, payouts_split]
    views,              \* analytics table views: groups of n events
                        \*   [project_id, recorded, n]
    downloads,          \* analytics table downloads: groups of n events
                        \*   [project_id, user_id, recorded, n]
    arriving,           \* views of a past day that have not been written to
                        \*   the analytics table yet
    balance,            \* users.balance, committed
    payouts_values,     \* table payouts_values, committed: rows
                        \*   [user_id, mod_id, amount, created, run]
                        \*   (run: the invocation that inserted the row)
    redis_cleared,      \* per run, the users whose cache entries it cleared
    \* -- one invocation of process_payout --
    pc,
    start,
    analytics,          \* the four results of try_join4
    multipliers,
    projects_map,
    payout,             \* the day amount (line 666)
    pending,            \* what the loop of lines 674-708 has still to pay
    insert_rows,        \* insert_user_ids, insert_project_ids,
                        \*   insert_payouts, insert_starts, row by row
    clear_cache_users,
    transaction,        \* [open, locked, updates, rows]
    result,
    finished_before     \* the invocations that had returned when this began

payoutVars ==
    << today, budget, mods, team_members, views, downloads, arriving, balance,
       payouts_values, redis_cleared, pc, start, analytics, multipliers,
       projects_map, payout, pending, insert_rows, clear_cache_users,
       transaction, result, finished_before >>

storeVars == << budget, mods, team_members, views, downloads, arriving >>

VARIABLES
    \* -- the clock of the two caches --
    now,                \* Utc::now(): seconds for the credential cache,
                        \*   hours for the payout-method catalog
    \* -- PayoutsQueue.credential and the callers of make_paypal_request --
    credential,         \* the value behind the RwLock: NoValue or a credential
    credential_lock,    \* the RwLock: [readers, writer, waiters]
    cpc,
    credentials,        \* the credential a caller holds for its request
    handed_at,          \* the instant at which the caller got it
    token_requests,     \* the requests the token endpoint has received
    cresult,            \* what the caller's last make_paypal_request returned
    paypal_answers,     \* the answers the PayPal endpoint may give to a request
    canswer,            \* the answer the caller's request got
    csent,              \* the requests the caller's call has sent, in order
    \* -- PayoutsQueue.payout_options and the callers of get_payout_methods --
    payout_options,     \* the value behind the RwLock: NoValue or [options, expires]
    options_lock,       \* the RwLock: [readers, writer, waiters]
    opc,
    response,           \* the product list the gateway answered with
    options,            \* what the caller returns
    product_requests,   \* the requests the products endpoint has received
    upstream,           \* the products the gateway offers
    oresult,            \* what the caller's last get_payout_methods returned
    tremendous_answers, \* the answers the products endpoint may give
    oanswer,            \* the answer the caller's products request got
    checked_at,         \* the instant at which the caller checked the expiry
    \* -- PayoutsQueue.payouts_locks and the callers of lock_user_payouts --
    payouts_locks,      \* the DashMap: user id -> handle
    mutexes,            \* per handle created, the caller holding it or NoCaller
    lpc,
    luser,
    lhandle             \* the Arc a caller got from lock_user_payouts

credentialVars ==
    << credential, credential_lock, cpc, credentials, handed_at, token_requests,
       cresult, paypal_answers, canswer, csent >>

catalogVars ==
    << payout_options, options_lock, opc, response, options, product_requests,
       upstream, oresult, tremendous_answers, oanswer, checked_at >>

lockVars == << payouts_locks, mutexes, lpc, luser, lhandle >>

\* Option::None; NoCaller: no task.
NoValue == [ none |-> TRUE ]

NoCaller == 0

(***************************************************************************)
(* Helpers on sets, sequences and finite maps.                             *)
(***************************************************************************)
Min(S) == CHOOSE x \in S : \A y \in S : x <= y

RECURSIVE SetToSeq(_)
SetToSeq(S) == IF S = {} THEN << >> ELSE << Min(S) >> \o SetToSeq(S \ {Min(S)})

RECURSIVE SumN(_)
\* The number of events in a set of event groups.
SumN(S) ==
    IF S = {} THEN 0
    ELSE LET g == CHOOSE x \in S : TRUE IN g.n + SumN(S \ {g})

RECURSIVE SumAmounts(_)
SumAmounts(S) ==
    IF S = {} THEN DecimalZero
    ELSE LET g == CHOOSE x \in S : TRUE
         IN  DecimalAdd(g.amount, SumAmounts(S \ {g}))

Range(s) == { s[i] : i \in 1..Len(s) }

Permutations_(S) ==
    { s \in [1..Cardinality(S) -> S] : \A i, j \in 1..Cardinality(S) : s[i] = s[j] => i = j }

EmptyMap == [x \in {} |-> 0]

(***************************************************************************)
(* The queries.                                                            *)
(***************************************************************************)
\* Mutant: the guard looks for the records of the end of the target day.
PayoutsExistAtEnd(created) ==
    \E row \in payouts_values : row.created = created + SecondsPerDay

\* SELECT EXISTS(SELECT 1 FROM payouts_values WHERE created = $1)
PayoutsExist(created) == \E row \in payouts_values : row.created = created

\* FROM views WHERE (recorded BETWEEN ? AND ?) AND (project_id != 0), on the
\* rows the query finds in the table.
ViewsAmong(rows, from, to) ==
    { g \in rows : g.recorded >= from /\ g.recorded <= to /\ g.project_id # 0 }

ViewsIn(from, to) == ViewsAmong(views, from, to)

\* FROM downloads WHERE (recorded BETWEEN ? AND ?) AND (user_id != 0)
DownloadsIn(from, to) ==
    { g \in downloads : g.recorded >= from /\ g.recorded <= to /\ g.user_id # 0 }

\* SELECT COUNT(1) page_views, project_id ... GROUP BY project_id, collected
\* into a HashMap<u64, u64>.
GroupByProject(events) ==
    [ p \in { g.project_id : g \in events } |->
        SumN({ g \in events : g.project_id = p }) ]

FetchAll(from, to) ==
    [ views_values |-> GroupByProject(ViewsIn(from, to)),
      views_sum |-> SumN(ViewsIn(from, to)),
      downloads_values |-> GroupByProject(DownloadsIn(from, to)),
      downloads_sum |-> SumN(DownloadsIn(from, to)) ]

\* Lines 549-587: the four queries run concurrently, each on the table as it
\* is when the query reads it.  With views written to the table meanwhile,
\* the grouped query and the count find them or not, one apart from the other.
FetchAllDuring(from, to, written, grouped_finds, count_finds) ==
    [ FetchAll(from, to) EXCEPT
        !.views_values =
            GroupByProject(ViewsAmong(views \cup (IF grouped_finds THEN written ELSE {}),
                                      from, to)),
        !.views_sum =
            SumN(ViewsAmong(views \cup (IF count_finds THEN written ELSE {}),
                            from, to)) ]

\* Lines 596-613: the downloads are added to the views, project by project.
PayoutMultipliers(a) ==
    [ sum |-> a.downloads_sum + a.views_sum,
      values |->
        [ p \in DOMAIN a.views_values \cup DOMAIN a.downloads_values |->
            (IF p \in DOMAIN a.views_values THEN a.views_values[p] ELSE 0)
            + (IF p \in DOMAIN a.downloads_values THEN a.downloads_values[p] ELSE 0) ] ]

\* Mutant: members who have not accepted are joined too.
JoinsUnaccepted(m, tm, ids) ==
    /\ m.team_id = tm.team_id
    /\ m.id \in ids
    /\ m.monetization_status = "monetized"

\* Lines 628-632: the join and the WHERE clause of the team query.
Joins(m, tm, ids) ==
    /\ m.team_id = tm.team_id
    /\ tm.accepted
    /\ m.id \in ids
    /\ m.monetization_status = "monetized"

\* The rows of
\*   SELECT m.id, tm.user_id, tm.payouts_split FROM mods m
\*   INNER JOIN team_members tm on m.team_id = tm.team_id AND tm.accepted = TRUE
\*   WHERE m.id = ANY($1) AND m.monetization_status = 'monetized'
RECURSIVE TeamRows(_, _)
TeamRows(ids, i) ==
    IF i > Len(team_members) THEN << >>
    ELSE LET tm == team_members[i]
             ms == { m \in mods : Joins(m, tm, ids) }
             ordered == SetToSeq({ m.id : m \in ms })
         IN  [ k \in 1..Len(ordered) |->
                 [ id |-> ordered[k], user_id |-> tm.user_id,
                   payouts_split |-> tm.payouts_split ] ]
             \o TeamRows(ids, i + 1)

\* Lines 639-651: the rows grouped into projects_map, each project's
\* team_members in the order of the rows.
GroupTeams(rows) ==
    [ id \in { rows[i].id : i \in 1..Len(rows) } |->
        LET mine == SelectSeq(rows, LAMBDA row : row.id = id)
        IN  [ k \in 1..Len(mine) |-> << mine[k].user_id, mine[k].payouts_split >> ] ]

(***************************************************************************)
(* The amounts.                                                            *)
(***************************************************************************)
\* Lines 657-664.
WeekendBonus == DecimalDiv(DecimalFrom(5), DecimalFrom(4))

WeekdayAmount(b) ==
    DecimalDiv(DecimalFrom(b),
               DecimalAdd(DecimalFrom(20),
                          DecimalMul(WeekendBonus, DecimalFrom(28) - DecimalFrom(20))))

WeekendAmount(b) == DecimalMul(WeekdayAmount(b), WeekendBonus)

\* Mutant: the weekday amount is used on every day.
DayAmountOfWeekday(b, day) == WeekdayAmount(b)

\* Lines 666-669: the amount of the target day.
DayAmount(b, day) == IF IsWeekend(day) THEN WeekendAmount(b) ELSE WeekdayAmount(b)

\* Mutant: the split of the first member is taken for the sum.
FirstSplit(members) == Head(members)[2]

RECURSIVE SumSplits(_)
\* project.team_members.iter().map(|x| x.1).sum()
SumSplits(members) ==
    IF members = << >> THEN DecimalZero
    ELSE DecimalAdd(Head(members)[2], SumSplits(Tail(members)))

\* Line 676: Decimal::from(value) / Decimal::from(multipliers.sum)
ProjectMultiplier(value, sum) == DecimalDiv(DecimalFrom(value), DecimalFrom(sum))

\* Mutant: the split is not divided by the sum of the splits.
MemberPayoutOfRawSplit(day_amount, project_multiplier, split, sum_splits) ==
    DecimalMul(DecimalMul(day_amount, project_multiplier), split)

\* Line 683: payout * project_multiplier * (split / sum_splits)
MemberPayout(day_amount, project_multiplier, split, sum_splits) ==
    DecimalMul(DecimalMul(day_amount, project_multiplier),
               DecimalDiv(split, sum_splits))

\* Lines 675-705 for one project: the members paid, in order.
ProjectPayouts(id, members, mult, day_amount, created) ==
    IF id \notin DOMAIN mult.values THEN << >>
    ELSE LET project_multiplier == ProjectMultiplier(mult.values[id], mult.sum)
             sum_splits == SumSplits(members)
             all == [ k \in 1..Len(members) |->
                        [ user_id |-> members[k][1],
                          mod_id |-> id,
                          amount |-> MemberPayout(day_amount, project_multiplier,
                                                  members[k][2], sum_splits),
                          created |-> created ] ]
         IN  IF sum_splits > DecimalZero
             THEN SelectSeq(all, LAMBDA e : e.amount > DecimalZero)
             ELSE << >>

RECURSIVE AllPayouts(_, _, _, _, _)
\* Lines 674-708: the projects in the order the HashMap yields them.
AllPayouts(order, pm, mult, day_amount, created) ==
    IF order = << >> THEN << >>
    ELSE ProjectPayouts(Head(order), pm[Head(order)], mult, day_amount, created)
         \o AllPayouts(Tail(order), pm, mult, day_amount, created)

(***************************************************************************)
(* PayoutsQueue::new(), and callers that have not called yet.              *)
(***************************************************************************)
\* The calls a queue receives, each made by a task of its own.
NumCallers == 2

Callers == 1..NumCallers

Unlocked == [ readers |-> {}, writer |-> NoCaller, waiters |-> << >> ]

InitCredential ==
    /\ credential = NoValue
    /\ credential_lock = Unlocked
    /\ cpc = [ c \in Callers |-> "idle" ]
    /\ credentials = [ c \in Callers |-> NoValue ]
    /\ handed_at = [ c \in Callers |-> 0 ]
    /\ token_requests = 0
    /\ cresult = [ c \in Callers |-> NoValue ]
    /\ canswer = [ c \in Callers |-> NoValue ]
    /\ csent = [ c \in Callers |-> << >> ]

\* No call yet, with a gateway that offers the given products and gives the
\* given answers.
InitCatalog(products, answers) ==
    /\ payout_options = NoValue
    /\ options_lock = Unlocked
    /\ opc = [ c \in Callers |-> "idle" ]
    /\ response = [ c \in Callers |-> << >> ]
    /\ options = [ c \in Callers |-> NoValue ]
    /\ product_requests = 0
    /\ upstream = products
    /\ oresult = [ c \in Callers |-> NoValue ]
    /\ tremendous_answers = answers
    /\ oanswer = [ c \in Callers |-> NoValue ]
    /\ checked_at = [ c \in Callers |-> 0 ]

InitLocks ==
    /\ payouts_locks = EmptyMap
    /\ mutexes = << >>
    /\ lpc = [ c \in Callers |-> "idle" ]
    /\ luser = [ c \in Callers |-> 0 ]
    /\ lhandle = [ c \in Callers |-> 0 ]

(***************************************************************************)
(* The stores the job may find: projects 1 (team 1), 2 (team 2) and        *)
(* 3 (no row in mods), users 1..3.  T is the first target day.             *)
(***************************************************************************)
Mod(id, team_id, status) ==
    [ id |-> id, team_id |-> team_id, monetization_status |-> status ]

Member(team_id, user_id, accepted, split) ==
    [ team_id |-> team_id, user_id |-> user_id, accepted |-> accepted,
      payouts_split |-> DecimalFrom(split) ]

View(project_id, recorded, n) ==
    [ project_id |-> project_id, recorded |-> recorded, n |-> n ]

Download(project_id, user_id, recorded, n) ==
    [ project_id |-> project_id, user_id |-> user_id, recorded |-> recorded, n |-> n ]

FirstTarget == FirstDay - 1

Noon(d) == DayStart(d) + 43200

BothMonetized == { Mod(1, 1, "monetized"), Mod(2, 2, "monetized") }

Stores ==
    { \* weights 60 and 40, one member against two equal members; no event at
      \* all on the second target day
      [ budget |-> 30000, mods |-> BothMonetized,
        team_members |-> << Member(1, 1, TRUE, 1), Member(2, 2, TRUE, 1),
                            Member(2, 3, TRUE, 1) >>,
        views |-> { View(1, Noon(FirstTarget), 60), View(2, Noon(FirstTarget), 40) },
        downloads |-> {}, arriving |-> {} ],
      \* splits 3 and 1, a member who has not accepted, a project that is not
      \* monetized, anonymous views and downloads, downloads counted
      [ budget |-> 30000,
        mods |-> { Mod(1, 1, "monetized"), Mod(2, 2, "demonetized") },
        team_members |-> << Member(1, 1, TRUE, 3), Member(1, 2, TRUE, 1),
                            Member(1, 3, FALSE, 5), Member(2, 3, TRUE, 1) >>,
        views |-> { View(1, Noon(FirstTarget), 50), View(2, Noon(FirstTarget), 40),
                    View(0, Noon(FirstTarget), 7) },
        downloads |-> { Download(1, 2, Noon(FirstTarget), 10),
                        Download(1, 0, Noon(FirstTarget), 5) },
        arriving |-> {} ],
      \* splits that sum to zero, a negative split, amounts that round
      [ budget |-> 100, mods |-> BothMonetized,
        team_members |-> << Member(1, 1, TRUE, 0), Member(1, 2, TRUE, 0),
                            Member(2, 1, TRUE, 2), Member(2, 2, TRUE, 0 - 1) >>,
        views |-> { View(1, Noon(FirstTarget), 1), View(2, Noon(FirstTarget), 2) },
        downloads |-> {}, arriving |-> {} ],
      \* no budget configured
      [ budget |-> 0, mods |-> BothMonetized,
        team_members |-> << Member(1, 1, TRUE, 1), Member(2, 2, TRUE, 1) >>,
        views |-> { View(1, Noon(FirstTarget), 1) },
        downloads |-> { Download(2, 1, Noon(FirstTarget), 1) }, arriving |-> {} ],
      \* a user in two projects, splits 1 and 2 (thirds, which round), a
      \* project without a row in mods, an event recorded at the very end of
      \* the target day
      [ budget |-> 30000, mods |-> BothMonetized,
        team_members |-> << Member(1, 1, TRUE, 1), Member(2, 1, TRUE, 1),
                            Member(2, 2, TRUE, 2) >>,
        views |-> { View(1, Noon(FirstTarget), 1), View(3, Noon(FirstTarget), 2),
                    View(2, DayStart(FirstTarget + 1), 1) },
        downloads |-> { Download(2, 3, Noon(FirstTarget + 1), 1) },
        arriving |-> {} ],
      \* no event of the first target day in the tables yet: its only view is
      \* written while the job runs
      [ budget |-> 30000, mods |-> BothMonetized,
        team_members |-> << Member(1, 1, TRUE, 1) >>,
        views |-> {}, downloads |-> {},
        arriving |-> { View(1, Noon(FirstTarget), 1) } ] }

(***************************************************************************)
(* process_payout, one action per await point.                             *)
(***************************************************************************)
Ok == [ ok |-> TRUE, err |-> "" ]

Err(step) == [ ok |-> FALSE, err |-> step ]

\* Ok(value)
OkWith(value) == [ ok |-> TRUE, err |-> "", value |-> value ]

NoTransaction ==
    [ open |-> FALSE, locked |-> {}, updates |-> [ u \in UserIds |-> DecimalZero ],
      rows |-> {} ]

NoAnalytics ==
    [ views_values |-> EmptyMap, views_sum |-> 0,
      downloads_values |-> EmptyMap, downloads_sum |-> 0 ]

NoMultipliers == [ sum |-> 0, values |-> EmptyMap ]

\* A store without projects, events or budget.
NoStore ==
    [ budget |-> 0, mods |-> {}, team_members |-> << >>, views |-> {},
      downloads |-> {}, arriving |-> {} ]

\* No invocation yet, on store s.
InitPayout(s) ==
    /\ today = FirstDay
    /\ budget = s.budget
    /\ mods = s.mods
    /\ team_members = s.team_members
    /\ views = s.views
    /\ downloads = s.downloads
    /\ arriving = s.arriving
    /\ balance = [ u \in UserIds |-> DecimalZero ]
    /\ payouts_values = {}
    /\ redis_cleared = [ r \in Runs |-> {} ]
    /\ pc = [ r \in Runs |-> "idle" ]
    /\ start = [ r \in Runs |-> 0 ]
    /\ analytics = [ r \in Runs |-> NoAnalytics ]
    /\ multipliers = [ r \in Runs |-> NoMultipliers ]
    /\ projects_map = [ r \in Runs |-> EmptyMap ]
    /\ payout = [ r \in Runs |-> DecimalZero ]
    /\ pending = [ r \in Runs |-> << >> ]
    /\ insert_rows = [ r \in Runs |-> << >> ]
    /\ clear_cache_users = [ r \in Runs |-> << >> ]
    /\ transaction = [ r \in Runs |-> NoTransaction ]
    /\ result = [ r \in Runs |-> NoValue ]
    /\ finished_before = [ r \in Runs |-> {} ]

\* The clock reaches the next day.
NextDay ==
    /\ today < LastDay
    /\ today' = today + 1
    /\ UNCHANGED << storeVars, balance, payouts_values, redis_cleared, pc, start,
                    analytics, multipliers, projects_map, payout, pending,
                    insert_rows, clear_cache_users, transaction, result,
                    finished_before >>
    /\ UNCHANGED << now, credentialVars, catalogVars, lockVars >>

\* An error return: `?` drops the transaction, which rolls it back.
Fail(r, step) ==
    /\ pc' = [ pc EXCEPT ![r] = "done" ]
    /\ result' = [ result EXCEPT ![r] = Err(step) ]
    /\ transaction' = [ transaction EXCEPT ![r] = NoTransaction ]

\* Lines 523-529: the target day is yesterday.  Invocations are numbered in
\* the order in which they begin.
Start(r) ==
    /\ pc[r] = "idle"
    /\ \A q \in Runs : q < r => pc[q] # "idle"
    /\ pc' = [ pc EXCEPT ![r] = "guard" ]
    /\ start' = [ start EXCEPT ![r] = DayStart(today - 1) ]
    /\ finished_before' = [ finished_before EXCEPT ![r] = { q \in Runs : pc[q] = "done" } ]
    /\ UNCHANGED << today, storeVars, balance, payouts_values, redis_cleared,
                    analytics, multipliers, projects_map, payout, pending,
                    insert_rows, clear_cache_users, transaction, result >>
    /\ UNCHANGED << now, credentialVars, catalogVars, lockVars >>

\* Lines 531-540.
GuardQuery(r) ==
    /\ pc[r] = "guard"
    /\ \/ /\ Fail(r, "guard")
       \/ /\ PayoutsExist(start[r])
          /\ pc' = [ pc EXCEPT ![r] = "done" ]
          /\ result' = [ result EXCEPT ![r] = Ok ]
          /\ UNCHANGED transaction
       \/ /\ ~PayoutsExist(start[r])
          /\ pc' = [ pc EXCEPT ![r] = "analytics" ]
          /\ UNCHANGED << result, transaction >>
    /\ UNCHANGED << today, storeVars, balance, payouts_values, redis_cleared, start,
                    analytics, multipliers, projects_map, payout, pending,
                    insert_rows, clear_cache_users, finished_before >>
    /\ UNCHANGED << now, credentialVars, catalogVars, lockVars >>

\* Lines 542-587: the four aggregates over start..end; views may be written
\* to the table while the queries run.
FetchAnalytics(r) ==
    /\ pc[r] = "analytics"
    /\ \/ /\ Fail(r, "analytics")
          /\ UNCHANGED << analytics, views, arriving >>
       \/ \E written \in SUBSET arriving, grouped_finds, count_finds \in BOOLEAN :
          /\ written = {} => (~grouped_finds /\ ~count_finds)
          /\ analytics' = [ analytics EXCEPT
                              ![r] = FetchAllDuring(start[r], start[r] + SecondsPerDay,
                                                    written, grouped_finds, count_finds) ]
          /\ views' = views \cup written
          /\ arriving' = arriving \ written
          /\ pc' = [ pc EXCEPT ![r] = "begin" ]
          /\ UNCHANGED << result, transaction >>
    /\ UNCHANGED << today, budget, mods, team_members, downloads, balance,
                    payouts_values, redis_cleared, start,
                    multipliers, projects_map, payout, pending,
                    insert_rows, clear_cache_users, finished_before >>
    /\ UNCHANGED << now, credentialVars, catalogVars, lockVars >>

\* Lines 589-613.
BeginTransaction(r) ==
    /\ pc[r] = "begin"
    /\ \/ /\ Fail(r, "begin")
          /\ UNCHANGED multipliers
       \/ /\ transaction' = [ transaction EXCEPT ![r] = [ NoTransaction EXCEPT !.open = TRUE ] ]
          /\ multipliers' = [ multipliers EXCEPT ![r] = PayoutMultipliers(analytics[r]) ]
          /\ pc' = [ pc EXCEPT ![r] = "teams" ]
          /\ UNCHANGED result
    /\ UNCHANGED << today, storeVars, balance, payouts_values, redis_cleared, start,
                    analytics, projects_map, payout, pending,
                    insert_rows, clear_cache_users, finished_before >>
    /\ UNCHANGED << now, credentialVars, catalogVars, lockVars >>

\* Lines 620-690, up to the first UPDATE: the team query, the day amount, and
\* the payouts of the loop, the projects in any order of the HashMap.  The
\* division of line 676 panics when multipliers.sum is zero.
LoadTeams(r) ==
    /\ pc[r] = "teams"
    /\ \/ /\ Fail(r, "teams")
          /\ UNCHANGED << projects_map, payout, pending >>
       \/ LET pm == GroupTeams(TeamRows(DOMAIN multipliers[r].values, 1))
              day_amount == DayAmount(budget, start[r] \div SecondsPerDay)
          IN  /\ projects_map' = [ projects_map EXCEPT ![r] = pm ]
              /\ payout' = [ payout EXCEPT ![r] = day_amount ]
              /\ IF DOMAIN pm # {} /\ multipliers[r].sum = 0
                 THEN /\ pc' = [ pc EXCEPT ![r] = "done" ]
                      /\ result' = [ result EXCEPT ![r] = Err("panic") ]
                      /\ transaction' = [ transaction EXCEPT ![r] = NoTransaction ]
                      /\ UNCHANGED pending
                 ELSE \E order \in Permutations_(DOMAIN pm) :
                        LET todo == AllPayouts(order, pm, multipliers[r],
                                               day_amount, start[r])
                        IN  /\ pending' = [ pending EXCEPT ![r] = todo ]
                            /\ pc' = [ pc EXCEPT
                                         ![r] = IF todo = << >> THEN "insert" ELSE "update" ]
                            /\ UNCHANGED << result, transaction >>
    /\ UNCHANGED << today, storeVars, balance, payouts_values, redis_cleared, start,
                    analytics, multipliers, insert_rows, clear_cache_users,
                    finished_before >>
    /\ UNCHANGED << now, credentialVars, catalogVars, lockVars >>

\* Mutant: the UPDATE runs on the pool, outside the transaction.
UpdateBalanceOnPool(r) ==
    /\ pc[r] = "update"
    /\ LET e == Head(pending[r])
       IN  /\ insert_rows' = [ insert_rows EXCEPT ![r] = Append(@, e) ]
           /\ pending' = [ pending EXCEPT ![r] = Tail(@) ]
           /\ \/ /\ Fail(r, "update")
                 /\ UNCHANGED << clear_cache_users, balance >>
              \/ /\ balance' = [ balance EXCEPT ![e.user_id] = DecimalAdd(@, e.amount) ]
                 /\ clear_cache_users' = [ clear_cache_users EXCEPT ![r] = Append(@, e.user_id) ]
                 /\ pc' = [ pc EXCEPT
                              ![r] = IF Tail(pending[r]) = << >> THEN "insert" ELSE "update" ]
                 /\ UNCHANGED << result, transaction >>
    /\ UNCHANGED << today, storeVars, payouts_values, redis_cleared, start,
                    analytics, multipliers, projects_map, payout, finished_before >>
    /\ UNCHANGED << now, credentialVars, catalogVars, lockVars >>

\* Mutant: SET balance = $1.
BalanceSetTo(current, amount) == amount

\* Lines 692-694: SET balance = balance + $1.
BalancePlus(current, amount) == DecimalAdd(current, amount)

\* Lines 685-704: the next payout is pushed and its UPDATE runs inside the
\* transaction; the row of a user another open transaction has updated is
\* locked until that transaction ends.
UpdateBalance(r) ==
    /\ pc[r] = "update"
    /\ LET e == Head(pending[r])
       IN  /\ insert_rows' = [ insert_rows EXCEPT ![r] = Append(@, e) ]
           /\ pending' = [ pending EXCEPT ![r] = Tail(@) ]
           /\ \/ /\ Fail(r, "update")
                 /\ UNCHANGED clear_cache_users
              \/ /\ \A q \in Runs \ {r} : e.user_id \notin transaction[q].locked
                 /\ transaction' =
                      [ transaction EXCEPT
                          ![r].locked = @ \cup { e.user_id },
                          ![r].updates[e.user_id] = BalancePlus(@, e.amount) ]
                 /\ clear_cache_users' = [ clear_cache_users EXCEPT ![r] = Append(@, e.user_id) ]
                 /\ pc' = [ pc EXCEPT
                              ![r] = IF Tail(pending[r]) = << >> THEN "insert" ELSE "update" ]
                 /\ UNCHANGED result
    /\ UNCHANGED << today, storeVars, balance, payouts_values, redis_cleared, start,
                    analytics, multipliers, projects_map, payout, finished_before >>
    /\ UNCHANGED << now, credentialVars, catalogVars, lockVars >>

\* Mutant: the bulk INSERT runs on the pool, outside the transaction.
BulkInsertOnPool(r) ==
    /\ pc[r] = "insert"
    /\ \/ /\ Fail(r, "insert")
          /\ UNCHANGED payouts_values
       \/ /\ payouts_values' = payouts_values \cup
               { [ user_id |-> e.user_id, mod_id |-> e.mod_id, amount |-> e.amount,
                   created |-> e.created, run |-> r ] : e \in Range(insert_rows[r]) }
          /\ pc' = [ pc EXCEPT ![r] = "commit" ]
          /\ UNCHANGED << result, transaction >>
    /\ UNCHANGED << today, storeVars, balance, redis_cleared, start,
                    analytics, multipliers, projects_map, payout, pending,
                    insert_rows, clear_cache_users, finished_before >>
    /\ UNCHANGED << now, credentialVars, catalogVars, lockVars >>

\* Lines 710-721: the bulk INSERT, inside the transaction.
BulkInsert(r) ==
    /\ pc[r] = "insert"
    /\ \/ /\ Fail(r, "insert")
       \/ /\ transaction' =
               [ transaction EXCEPT
                   ![r].rows = { [ user_id |-> e.user_id, mod_id |-> e.mod_id,
                                   amount |-> e.amount, created |-> e.created,
                                   run |-> r ] : e \in Range(insert_rows[r]) } ]
          /\ pc' = [ pc EXCEPT ![r] = "commit" ]
          /\ UNCHANGED result
    /\ UNCHANGED << today, storeVars, balance, payouts_values, redis_cleared, start,
                    analytics, multipliers, projects_map, payout, pending,
                    insert_rows, clear_cache_users, finished_before >>
    /\ UNCHANGED << now, credentialVars, catalogVars, lockVars >>

\* Lines 723-725: COMMIT makes the updates and the rows visible at once; with
\* nobody to clear from the cache the function returns Ok.
Commit(r) ==
    /\ pc[r] = "commit"
    /\ \/ /\ Fail(r, "commit")
          /\ UNCHANGED << balance, payouts_values >>
       \/ /\ balance' = [ u \in UserIds |->
                            DecimalAdd(balance[u], transaction[r].updates[u]) ]
          /\ payouts_values' = payouts_values \cup transaction[r].rows
          /\ transaction' = [ transaction EXCEPT ![r] = NoTransaction ]
          /\ IF clear_cache_users[r] = << >>
             THEN /\ pc' = [ pc EXCEPT ![r] = "done" ]
                  /\ result' = [ result EXCEPT ![r] = Ok ]
             ELSE /\ pc' = [ pc EXCEPT ![r] = "clear_caches" ]
                  /\ UNCHANGED result
    /\ UNCHANGED << today, storeVars, redis_cleared, start,
                    analytics, multipliers, projects_map, payout, pending,
                    insert_rows, clear_cache_users, finished_before >>
    /\ UNCHANGED << now, credentialVars, catalogVars, lockVars >>

\* Mutant: the first user only is cleared.
ClearCacheIdsOfFirst(users) == { Head(users) }

\* Lines 727-730: the ids handed to User::clear_caches.
ClearCacheIds(users) == Range(users)

\* Lines 725-736: User::clear_caches, after the commit.
ClearCaches(r) ==
    /\ pc[r] = "clear_caches"
    /\ \/ /\ Fail(r, "clear_caches")
          /\ UNCHANGED redis_cleared
       \/ /\ redis_cleared' = [ redis_cleared EXCEPT ![r] = ClearCacheIds(clear_cache_users[r]) ]
          /\ pc' = [ pc EXCEPT ![r] = "done" ]
          /\ result' = [ result EXCEPT ![r] = Ok ]
          /\ UNCHANGED transaction
    /\ UNCHANGED << today, storeVars, balance, payouts_values, start,
                    analytics, multipliers, projects_map, payout, pending,
                    insert_rows, clear_cache_users, finished_before >>
    /\ UNCHANGED << now, credentialVars, catalogVars, lockVars >>

NextPayout ==
    \/ NextDay
    \/ \E r \in Runs :
        \/ Start(r)
        \/ GuardQuery(r)
        \/ FetchAnalytics(r)
        \/ BeginTransaction(r)
        \/ LoadTeams(r)
        \/ UpdateBalance(r)
        \/ BulkInsert(r)
        \/ Commit(r)
        \/ ClearCaches(r)

vars == << payoutVars, now, credentialVars, catalogVars, lockVars >>

\* The distribution job alone, on each of the stores.
PayoutInit ==
    /\ \E s \in Stores : InitPayout(s)
    /\ now = 0
    /\ InitCredential
    /\ paypal_answers = {}
    /\ InitCatalog(<< >>, {})
    /\ InitLocks

SpecPayout == PayoutInit /\ [][NextPayout]_vars

(***************************************************************************)
(* The answers of the two gateways and what the clients make of them.      *)
(* A body is a serde_json::Value.                                          *)
(***************************************************************************)
JsonNull == [ kind |-> "null" ]

JsonNumber(n) == [ kind |-> "number", n |-> n ]

JsonString(text) == [ kind |-> "string", s |-> text ]

JsonArray(items) == [ kind |-> "array", items |-> items ]

\* fields: a function from the keys to the values.
JsonObject(fields) == [ kind |-> "object", fields |-> fields ]

\* An answer: the request could be sent or not, the body is JSON or not, the
\* HTTP status is a success or not.
Answer(success, body) ==
    [ sent |-> TRUE, json |-> TRUE, success |-> success, body |-> body ]

\* reqwest's send() fails.
NotSent == [ sent |-> FALSE, json |-> FALSE, success |-> FALSE, body |-> JsonNull ]

\* The body is not JSON.
NotJson(success) ==
    [ sent |-> TRUE, json |-> FALSE, success |-> success, body |-> JsonNull ]

\* serde_json::from_value into a struct whose fields, in the order given, are
\* all Strings (#[derive(Deserialize)]): from an object that has every field
\* as a string, other keys ignored, or from an array of exactly as many
\* strings, taken in order.  The strings of the fields, or NoValue.
FromValue(value, fields) ==
    IF value.kind = "object"
    THEN IF \A i \in 1..Len(fields) :
               /\ fields[i] \in DOMAIN value.fields
               /\ value.fields[fields[i]].kind = "string"
         THEN [ some |-> [ i \in 1..Len(fields) |-> value.fields[fields[i]].s ] ]
         ELSE NoValue
    ELSE IF value.kind = "array"
    THEN IF /\ Len(value.items) = Len(fields)
            /\ \A i \in 1..Len(fields) : value.items[i].kind = "string"
         THEN [ some |-> [ i \in 1..Len(fields) |-> value.items[i].s ] ]
         ELSE NoValue
    ELSE NoValue

\* ApiError::Payments(format!("error name: {}, message: {}", name, message)):
\* the format and its two arguments.
ErrorNameMessage(name, message) ==
    [ ok |-> FALSE, err |-> "error name: {}, message: {}",
      name |-> name, message |-> message ]

\* Mutant: the identity error shape is tried first.
PaypalErrorIdentityFirst(value) ==
    LET identity == FromValue(value, << "error", "error_description" >>)
        error == FromValue(value, << "name", "message" >>)
    IN  IF identity # NoValue
        THEN ErrorNameMessage(identity.some[1], identity.some[2])
        ELSE IF error # NoValue
        THEN ErrorNameMessage(error.some[1], error.some[2])
        ELSE Err("could not retrieve PayPal error body")

\* Lines 167-197: the error of a response whose status is not a success.
PaypalError(value) ==
    LET error == FromValue(value, << "name", "message" >>)
        identity == FromValue(value, << "error", "error_description" >>)
    IN  IF error # NoValue
        THEN ErrorNameMessage(error.some[1], error.some[2])
        ELSE IF identity # NoValue
        THEN ErrorNameMessage(identity.some[1], identity.some[2])
        ELSE Err("could not retrieve PayPal error body")

\* Lines 155-199: what make_paypal_request returns for an answer, X being
\* serde_json::Value.
PaypalResult(answer) ==
    IF ~answer.sent THEN Err("could not communicate with PayPal")
    ELSE IF ~answer.json THEN Err("could not retrieve PayPal response body")
    ELSE IF ~answer.success THEN PaypalError(answer.body)
    ELSE OkWith(answer.body)

\* The strings of the four keys the error shapes read.
KeyText ==
    [ name |-> "INVALID_REQUEST", message |-> "Request is not well-formed",
      error |-> "invalid_client", error_description |-> "Client Authentication failed" ]

\* The bodies of the PayPal answers: the objects with any of the four keys,
\* one more whose name is not a string, arrays of strings, and scalars.
PaypalBodies ==
    { JsonObject([ k \in keys |-> JsonString(KeyText[k]) ]) :
        keys \in SUBSET DOMAIN KeyText }
    \cup { JsonObject([ k \in DOMAIN KeyText |->
                          IF k = "name" THEN JsonNumber(1) ELSE JsonString(KeyText[k]) ]),
           JsonArray(<< JsonString("a"), JsonString("b") >>),
           JsonArray(<< JsonString("a") >>),
           JsonArray(<< JsonString("a"), JsonNumber(1) >>),
           JsonString("a"), JsonNumber(1), JsonNull }

PaypalAnswers ==
    { NotSent, NotJson(TRUE), NotJson(FALSE) }
    \cup { Answer(success, body) : success \in BOOLEAN, body \in PaypalBodies }

(***************************************************************************)
(* tokio::sync::RwLock: a fair lock.  A task that calls read() or write()  *)
(* joins the queue of waiters; the lock is granted to the head of the      *)
(* queue, to a reader when no writer holds it, to a writer when nobody     *)
(* holds it.                                                               *)
(***************************************************************************)
Enqueue(lock, c, mode) ==
    [ lock EXCEPT !.waiters = Append(@, << c, mode >>) ]

IsHead(lock, c, mode) ==
    lock.waiters # << >> /\ Head(lock.waiters) = << c, mode >>

CanRead(lock, c) == IsHead(lock, c, "read") /\ lock.writer = NoCaller

\* Mutant: a writer is admitted whoever holds the lock.
CanWriteWhileHeld(lock, c) == IsHead(lock, c, "write")

CanWrite(lock, c) ==
    IsHead(lock, c, "write") /\ lock.writer = NoCaller /\ lock.readers = {}

GrantRead(lock, c) ==
    [ lock EXCEPT !.waiters = Tail(@), !.readers = @ \cup { c } ]

GrantWrite(lock, c) == [ lock EXCEPT !.waiters = Tail(@), !.writer = c ]

\* The guard of c is dropped.
Release(lock, c) ==
    [ lock EXCEPT !.readers = @ \ { c },
                  !.writer = IF @ = c THEN NoCaller ELSE @ ]

\* Mutant: the read guard is kept while the refresh is awaited.
KeepRead(lock, c) == lock

\* drop(read): lines 119 and 127, 497 and 503.
DropRead(lock, c) == Release(lock, c)

(***************************************************************************)
(* make_paypal_request and refresh_token.                                  *)
(***************************************************************************)
\* The last second the clock of the credential cache reaches.
LastSecond == 3
\* The longest lifetime, in seconds, the token endpoint grants.
MaxExpiresIn == 2

\* expires_in of a token response: the lifetime of the token, in seconds.
ExpiresIn == 0..MaxExpiresIn

\* Mutant: a cached credential is taken for valid whatever its expiry.
NeverExpired(cached, t) == FALSE

\* Line 118: credentials.expires < Utc::now()
IsExpired(cached, t) == cached.expires < t

\* Lines 117-131: whether the cached value does not serve and a refresh is made.
NeedsRefresh(cached, t) == cached = NoValue \/ IsExpired(cached, t)

\* Mutant: a refresh that fails empties the cache.
ClearedByFailure(cached) == NoValue

\* Lines 80-95: `?` returns before line 103; the cache keeps its value.
AfterFailedRefresh(cached) == cached

\* Lines 97-101.
NewCredentials(token, expires_in, t) ==
    [ access_token |-> token, token_type |-> "Bearer", expires |-> t + expires_in ]

\* A second passes.
TickSecond ==
    /\ now < LastSecond
    /\ now' = now + 1
    /\ UNCHANGED << credentialVars, payoutVars, catalogVars, lockVars >>

\* make_paypal_request is called: line 116, self.credential.read() is awaited.
\* The calls are numbered in the order they are made.
CallPaypal(c) ==
    /\ cpc[c] = "idle"
    /\ \A d \in Callers : d < c => cpc[d] # "idle"
    /\ cpc' = [ cpc EXCEPT ![c] = "read" ]
    /\ credential_lock' = Enqueue(credential_lock, c, "read")
    /\ UNCHANGED << credential, credentials, handed_at, token_requests, cresult,
                    paypal_answers, canswer, csent >>
    /\ UNCHANGED << now, payoutVars, catalogVars, lockVars >>

\* Lines 116-131: the read guard is granted; a cached credential that has not
\* expired is cloned and the guard kept for the rest of the call, otherwise
\* the guard is dropped and refresh_token awaits self.credential.write().
ReadCredential(c) ==
    /\ cpc[c] = "read"
    /\ CanRead(credential_lock, c)
    /\ IF NeedsRefresh(credential, now)
       THEN /\ credential_lock' =
                 Enqueue(DropRead(GrantRead(credential_lock, c), c), c, "write")
            /\ cpc' = [ cpc EXCEPT ![c] = "write" ]
            /\ UNCHANGED << credentials, handed_at >>
       ELSE /\ credential_lock' = GrantRead(credential_lock, c)
            /\ credentials' = [ credentials EXCEPT ![c] = credential ]
            /\ handed_at' = [ handed_at EXCEPT ![c] = now ]
            /\ cpc' = [ cpc EXCEPT ![c] = "request" ]
    /\ UNCHANGED << credential, token_requests, cresult, paypal_answers, canswer,
                    csent >>
    /\ UNCHANGED << now, payoutVars, catalogVars, lockVars >>

\* Lines 57-87: the write guard is granted and the token request is sent.
SendTokenRequest(c) ==
    /\ cpc[c] = "write"
    /\ CanWrite(credential_lock, c)
    /\ credential_lock' = GrantWrite(credential_lock, c)
    /\ token_requests' = token_requests + 1
    /\ csent' = [ csent EXCEPT ![c] = Append(@, "oauth2/token") ]
    /\ cpc' = [ cpc EXCEPT ![c] = "token_request" ]
    /\ UNCHANGED << credential, credentials, handed_at, cresult, paypal_answers,
                    canswer >>
    /\ UNCHANGED << now, payoutVars, catalogVars, lockVars >>

\* Lines 87-131: the token request fails, or its response does not
\* deserialize: the cache is left alone and the call returns
\* "Error while authenticating with PayPal"; or the token is stored with
\* its expiry and handed to the request.
TokenResponse(c) ==
    /\ cpc[c] = "token_request"
    /\ credential_lock' = Release(credential_lock, c)
    /\ \/ /\ cpc' = [ cpc EXCEPT ![c] = "done" ]
          /\ cresult' = [ cresult EXCEPT
                            ![c] = Err("Error while authenticating with PayPal") ]
          /\ credential' = AfterFailedRefresh(credential)
          /\ UNCHANGED << credentials, handed_at >>
       \/ \E expires_in \in ExpiresIn :
            LET new_creds == NewCredentials(token_requests, expires_in, now)
            IN  /\ credential' = new_creds
                /\ credentials' = [ credentials EXCEPT ![c] = new_creds ]
                /\ handed_at' = [ handed_at EXCEPT ![c] = now ]
                /\ cpc' = [ cpc EXCEPT ![c] = "request" ]
                /\ UNCHANGED cresult
    /\ UNCHANGED << token_requests, paypal_answers, canswer, csent >>
    /\ UNCHANGED << now, payoutVars, catalogVars, lockVars >>

\* Lines 133-200: the request is sent with the credential, the response is
\* read and the call returns, dropping the read guard if it holds one.
PaypalResponse(c) ==
    /\ cpc[c] = "request"
    /\ credential_lock' = Release(credential_lock, c)
    /\ cpc' = [ cpc EXCEPT ![c] = "done" ]
    /\ credentials' = [ credentials EXCEPT ![c] = NoValue ]
    /\ \E answer \in paypal_answers :
        /\ canswer' = [ canswer EXCEPT ![c] = answer ]
        /\ cresult' = [ cresult EXCEPT ![c] = PaypalResult(answer) ]
    /\ csent' = [ csent EXCEPT ![c] = Append(@, "request") ]
    /\ UNCHANGED << credential, handed_at, token_requests, paypal_answers >>
    /\ UNCHANGED << now, payoutVars, catalogVars, lockVars >>

NextCredential ==
    \/ TickSecond
    \/ \E c \in Callers :
        \/ CallPaypal(c)
        \/ ReadCredential(c)
        \/ SendTokenRequest(c)
        \/ TokenResponse(c)
        \/ PaypalResponse(c)

(***************************************************************************)
(* The distribution job: what the claims speak of.                         *)
(***************************************************************************)
\* The committed payout records an invocation inserted.
RowsOf(r) == { row \in payouts_values : row.run = r }

\* The records an invocation has pushed onto its insert vectors.
PushedBy(r) ==
    { [ user_id |-> e.user_id, mod_id |-> e.mod_id, amount |-> e.amount,
        created |-> e.created, run |-> r ] : e \in Range(insert_rows[r]) }

\* The committed balance of every user is the sum of the committed records.
BalancesMatchRecords ==
    \A u \in UserIds :
        balance[u] = SumAmounts({ row \in payouts_values : row.user_id = u })

Returned(r) == pc[r] = "done"

Failed(r) == Returned(r) /\ ~result[r].ok

\* r2 began after r1 had returned, for the same target day.
Sequential(r1, r2) ==
    /\ r1 # r2
    /\ pc[r2] # "idle"
    /\ r1 \in finished_before[r2]
    /\ start[r1] = start[r2]

\* The second invocation went no further than the guard.
StoppedAtGuard(r) ==
    /\ pc[r] \in { "guard", "done" }
    /\ Returned(r) => result[r] \in { Ok, Err("guard") }
    /\ transaction[r] = NoTransaction
    /\ insert_rows[r] = << >>
    /\ RowsOf(r) = {}
    /\ redis_cleared[r] = {}

\* C1 as stated: of two sequential invocations for the same target day, the
\* first of which returned Ok, the second finds the guard record, returns at
\* once and writes nothing.
C1_SecondRunIsNoOp ==
    \A r1, r2 \in Runs :
        (Sequential(r1, r2) /\ result[r1] = Ok) => StoppedAtGuard(r2)

\* C1, amended: of two sequential invocations for the same target day, the
\* first of which committed at least one payout record, the second finds the
\* guard record, returns at once and leaves every balance and the payout
\* records as they were.
C1_SecondRunIsNoOpAfterRecords ==
    \A r1, r2 \in Runs :
        (Sequential(r1, r2) /\ RowsOf(r1) # {}) =>
            /\ StoppedAtGuard(r2)
            /\ BalancesMatchRecords

C1_Witness ==
    \E r1, r2 \in Runs :
        /\ Sequential(r1, r2)
        /\ RowsOf(r1) # {}
        /\ Returned(r2)
        /\ result[r2] = Ok

\* C2 as stated: an invocation that returned an error, whatever the step that
\* failed, has persisted no payout record and no balance increment.
C2_ErrorPersistsNothing ==
    \A r \in Runs : Failed(r) => (RowsOf(r) = {} /\ BalancesMatchRecords)

\* C2, amended: an invocation that returned an error from the guard query,
\* the analytics fetches, the begin, the team query, a balance update, the
\* bulk insert or the commit has persisted nothing; one that returned the
\* error of the cache invalidation has committed before: all its records and
\* increments are persisted.
C2_ErrorBeforeCommitPersistsNothing ==
    \A r \in Runs :
        Failed(r) =>
            /\ BalancesMatchRecords
            /\ IF result[r].err = "clear_caches"
               THEN RowsOf(r) = PushedBy(r) /\ RowsOf(r) # {}
               ELSE RowsOf(r) = {}

C2_Witness ==
    \E r \in Runs :
        /\ Failed(r)
        /\ result[r].err = "commit"
        /\ Len(insert_rows[r]) >= 2
        /\ RowsOf(r) = {}

\* C3: in every state of the relational store each invocation's records and
\* balance increments are visible all together or not at all: its committed
\* records are none or all of those it pushed, they are visible only once it
\* has committed, and the balances are the sums of the visible records.
C3_NoPartialCommit ==
    /\ BalancesMatchRecords
    /\ \A r \in Runs :
        /\ RowsOf(r) = {} \/ RowsOf(r) = PushedBy(r)
        /\ RowsOf(r) # {} => (pc[r] \in { "clear_caches", "done" } /\ pending[r] = << >>)
        /\ (Failed(r) /\ result[r].err \in { "update", "insert" }) => RowsOf(r) = {}

C3_Witness ==
    \E r \in Runs :
        /\ Failed(r)
        /\ result[r].err = "update"
        /\ Len(insert_rows[r]) >= 2
        /\ RowsOf(r) = {}
        /\ \E q \in Runs : RowsOf(q) # {}

\* The payout of the formula, from the weights, the day amount and the splits.
FormulaPayout(day_amount, weight, total_weight, split, sum_of_splits) ==
    DecimalMul(DecimalMul(day_amount,
                          DecimalDiv(DecimalFrom(weight), DecimalFrom(total_weight))),
               DecimalDiv(split, sum_of_splits))

\* The payouts an invocation has computed: pushed or still to be pushed.
Computed(r) ==
    { << e.mod_id, e.user_id, e.amount >> :
        e \in Range(insert_rows[r]) \cup Range(pending[r]) }

\* The positive payouts of the formula, for the projects with a weight, a
\* loaded member and a positive sum of splits.
Expected(r) ==
    LET pm == projects_map[r]
        paid == { id \in DOMAIN pm \cap DOMAIN multipliers[r].values :
                    SumSplits(pm[id]) > DecimalZero }
        all == UNION { { << id, pm[id][k][1],
                            FormulaPayout(payout[r], multipliers[r].values[id],
                                          multipliers[r].sum, pm[id][k][2],
                                          SumSplits(pm[id])) >> :
                          k \in 1..Len(pm[id]) } : id \in paid }
    IN  { t \in all : t[3] > DecimalZero }

\* The loop of lines 674-708 has been entered and the invocation has not returned.
InLoop(r) == pc[r] \in { "update", "insert", "commit", "clear_caches" }

\* The example of the specification: weights 60 and 40, a day amount of 1000,
\* project 1 with one member of split 1, project 2 with members of splits 1, 1.
IsExample(r) ==
    /\ payout[r] = DecimalFrom(1000)
    /\ multipliers[r] = [ sum |-> 100, values |-> (1 :> 60 @@ 2 :> 40) ]
    /\ projects_map[r] =
          (1 :> << << 1, DecimalFrom(1) >> >>
           @@ 2 :> << << 2, DecimalFrom(1) >>, << 3, DecimalFrom(1) >> >>)

ExamplePayouts ==
    { << 1, 1, DecimalFrom(600) >>, << 2, 2, DecimalFrom(200) >>,
      << 2, 3, DecimalFrom(200) >> }

\* C10: for every project with a weight, a loaded member and a positive sum
\* of splits, the payout computed for a member is
\* day_amount x (project_weight / grand_total_weight) x (split / sum_of_splits)
\* (the positive ones are those the invocation pays); in the example of the
\* specification the payouts are 600, 200 and 200.
C10_PayoutFormula ==
    \A r \in Runs :
        InLoop(r) =>
            /\ Computed(r) = Expected(r)
            /\ IsExample(r) => Computed(r) = ExamplePayouts

C10_Witness ==
    \E r \in Runs :
        /\ pc[r] = "commit"
        /\ IsExample(r)
        /\ { << row.mod_id, row.user_id, row.amount >> : row \in transaction[r].rows }
             = ExamplePayouts

\* The step in which an invocation calls User::clear_caches (line 726).
RequestsInvalidation(r) == pc[r] = "clear_caches" /\ pc'[r] = "done"

\* The users the committed records of an invocation pay.
PaidBy(r) == { row.user_id : row \in RowsOf(r) }

\* C21: an invocation calls the cache invalidation only once its transaction
\* has committed; the cleared users change by that call only; an invocation
\* that aborted has cleared nobody; an invocation that committed payouts and
\* returned has called it for exactly the users it paid.
C21_InvalidationAfterCommit ==
    /\ [][\A r \in Runs :
            RequestsInvalidation(r) =>
                /\ transaction[r] = NoTransaction
                /\ RowsOf(r) # {}
                /\ RowsOf(r) = PushedBy(r)
                /\ BalancesMatchRecords]_vars
    /\ [][\A r \in Runs :
            redis_cleared'[r] # redis_cleared[r] =>
                /\ RequestsInvalidation(r)
                /\ redis_cleared'[r] = PaidBy(r)]_vars
    /\ [](\A r \in Runs :
            (Failed(r) /\ result[r].err # "clear_caches") =>
                (RowsOf(r) = {} /\ redis_cleared[r] = {}))
    /\ [](\A r \in Runs :
            (Returned(r) /\ RowsOf(r) # {}) =>
                /\ result[r] = Ok \/ result[r].err = "clear_caches"
                /\ Range(clear_cache_users[r]) = PaidBy(r)
                /\ result[r] = Ok => redis_cleared[r] = PaidBy(r))

\* An invocation committed payouts to two users and cleared both.
C21_Witness ==
    \E r \in Runs :
        /\ Returned(r)
        /\ result[r] = Ok
        /\ Cardinality(PaidBy(r)) >= 2
        /\ redis_cleared[r] = PaidBy(r)

\* The events recorded in [from, from + 1 day).
WithinDay(events, from) ==
    { g \in events : g.recorded >= from /\ g.recorded < from + SecondsPerDay }

\* C22: the aggregates of an invocation count no event outside
\* [start, start + 1 day): each total and each project's weight is at most
\* the number of events of that interval.  An event recorded at exactly
\* start + 1 day is counted, by BETWEEN, for both days.
C22_HalfOpenDay ==
    \A r \in Runs :
        LET a == analytics[r]
            day_views == { g \in WithinDay(views, start[r]) : g.project_id # 0 }
            day_downloads == { g \in WithinDay(downloads, start[r]) : g.user_id # 0 }
        IN  /\ a.views_sum <= SumN(day_views)
            /\ a.downloads_sum <= SumN(day_downloads)
            /\ \A p \in DOMAIN a.views_values :
                   a.views_values[p] <= SumN({ g \in day_views : g.project_id = p })
            /\ \A p \in DOMAIN a.downloads_values :
                   a.downloads_values[p] <= SumN({ g \in day_downloads : g.project_id = p })

\* The user is an accepted member of the team of the project, which is
\* monetized.
IsEligible(user_id, mod_id) ==
    \E m \in mods : \E i \in 1..Len(team_members) :
        /\ m.id = mod_id
        /\ m.monetization_status = "monetized"
        /\ team_members[i].team_id = m.team_id
        /\ team_members[i].user_id = user_id
        /\ team_members[i].accepted

\* The records an invocation has pushed, inserted or committed.
RecordsOf(r) == PushedBy(r) \cup transaction[r].rows \cup RowsOf(r)

\* C23: every record an invocation pushes, inserts or commits, and every
\* balance it increments, is for an accepted member of a monetized project
\* that is in the invocation's weight map.
C23_PayoutEligibility ==
    \A r \in Runs :
        /\ \A row \in RecordsOf(r) :
            /\ IsEligible(row.user_id, row.mod_id)
            /\ row.mod_id \in DOMAIN multipliers[r].values
        /\ \A u \in UserIds :
            transaction[r].updates[u] # DecimalZero =>
                \E row \in PushedBy(r) : row.user_id = u

\* An invocation has committed payouts while the store holds a member who
\* has not accepted of a project it paid, and a project with views that is
\* not monetized.
C23_Witness ==
    \E r \in Runs :
        /\ RowsOf(r) # {}
        /\ \E i \in 1..Len(team_members) : \E m \in mods :
            /\ ~team_members[i].accepted
            /\ team_members[i].team_id = m.team_id
            /\ m.id \in { row.mod_id : row \in RowsOf(r) }
        /\ \E m \in mods :
            /\ m.monetization_status # "monetized"
            /\ m.id \in DOMAIN multipliers[r].values

\* What the invocation computed for a member of a project: the amount it
\* pushes, zero when it pushes none.
AmountOf(r, id, user_id) ==
    LET found == { t \in Computed(r) : t[1] = id /\ t[2] = user_id }
    IN  IF found = {} THEN DecimalZero ELSE (CHOOSE t \in found : TRUE)[3]

RECURSIVE SumOfAmounts(_, _, _)
SumOfAmounts(r, id, members) ==
    IF members = << >> THEN DecimalZero
    ELSE DecimalAdd(AmountOf(r, id, Head(members)[1]),
                    SumOfAmounts(r, id, Tail(members)))

\* The project payout: day_amount x project_share.
ProjectPayout(r, id) ==
    DecimalMul(payout[r],
               ProjectMultiplier(multipliers[r].values[id], multipliers[r].sum))

\* A bound on what the rounding of split / sum_splits and of the product
\* takes from or adds to one member payout of a project payout p, in units of
\* the last decimal place kept.
RoundingTolerance(p) == (Abs(p) \div (2 * DecimalOne)) + 1

\* The projects of the loop whose members all hold positive splits.
PositiveSplitProjects(r) ==
    { id \in DOMAIN projects_map[r] \cap DOMAIN multipliers[r].values :
        \A k \in 1..Len(projects_map[r][id]) :
            projects_map[r][id][k][2] > DecimalZero }

\* A split as a whole number (the splits of the stores are whole).
Whole(split) == split \div DecimalOne

\* C11: for a project whose members all hold positive splits, the member
\* payouts of a run sum to the project payout and any two of them are in the
\* ratio of the splits, within the rounding of the Decimal operations; with
\* splits 3 and 1 and a project payout of 600 they are 450 and 150.
C11_SplitConservation ==
    \A r \in Runs :
        InLoop(r) =>
            \A id \in PositiveSplitProjects(r) :
                LET members == projects_map[r][id]
                    p == ProjectPayout(r, id)
                    tolerance == RoundingTolerance(p)
                IN  /\ Abs(SumOfAmounts(r, id, members) - p)
                           <= Len(members) * tolerance
                    /\ \A i, j \in 1..Len(members) :
                           Abs(AmountOf(r, id, members[i][1]) * Whole(members[j][2])
                               - AmountOf(r, id, members[j][1]) * Whole(members[i][2]))
                             <= (Whole(members[i][2]) + Whole(members[j][2])) * tolerance
                    /\ (p = DecimalFrom(600)
                        /\ members = << << 1, DecimalFrom(3) >>, << 2, DecimalFrom(1) >> >>)
                           => /\ AmountOf(r, id, 1) = DecimalFrom(450)
                              /\ AmountOf(r, id, 2) = DecimalFrom(150)

\* A run has inserted the payouts of a project of 600 with splits 3 and 1.
C11_Witness ==
    \E r \in Runs :
        /\ pc[r] = "commit"
        /\ 1 \in PositiveSplitProjects(r)
        /\ ProjectPayout(r, 1) = DecimalFrom(600)
        /\ projects_map[r][1] = << << 1, DecimalFrom(3) >>, << 2, DecimalFrom(1) >> >>
        /\ { << row.user_id, row.amount >> : row \in transaction[r].rows }
             = { << 1, DecimalFrom(450) >>, << 2, DecimalFrom(150) >> }

\* The largest of the budgets the amounts are computed for, besides those of
\* the stores.
MaxBudget == 300

Budgets == 0..MaxBudget \cup { st.budget : st \in Stores }

\* What the two roundings (of the division, and of the product by 5/4) take
\* from or add to 20 weekday amounts and 8 weekend amounts, in units of the
\* last decimal place kept: 20 x 1/2 + 8 x (5/4 x 1/2 + 1/2).  With four
\* places or more (rust_decimal keeps up to 28) it is less than a cent.
BudgetTolerance == 20 \div 2 + (8 * 5) \div 8 + 8 \div 2

\* The amounts of every budget: the division by 30, the bonus of a quarter,
\* and the 28 days that make the budget.
AmountsConserveBudget ==
    \A b \in Budgets :
        LET weekday_amount == WeekdayAmount(b)
            weekend_amount == WeekendAmount(b)
        IN  /\ weekday_amount = DecimalDiv(DecimalFrom(b), DecimalFrom(30))
            /\ weekend_amount =
                   DecimalMul(weekday_amount, DecimalDiv(DecimalFrom(125), DecimalFrom(100)))
            /\ Abs(20 * weekday_amount + 8 * weekend_amount - DecimalFrom(b))
                   <= BudgetTolerance
            /\ (b % 30 = 0) =>
                   20 * weekday_amount + 8 * weekend_amount = DecimalFrom(b)

\* The calendar day an invocation pays for.
TargetDay(r) == start[r] \div SecondsPerDay

C24_BudgetBound ==
    \A r \in Runs :
        InLoop(r) =>
            /\ SumAmounts(PushedBy(r))
                   <= payout[r] + Cardinality(PushedBy(r)) * RoundingTolerance(payout[r])
            /\ \A id \in DOMAIN projects_map[r] \cap DOMAIN multipliers[r].values :
                   LET rows == { row \in PushedBy(r) : row.mod_id = id }
                       p == ProjectPayout(r, id)
                   IN  SumAmounts(rows) <= p + Cardinality(rows) * RoundingTolerance(p)

\* The step in which the COMMIT of an invocation succeeds.
Commits(r) ==
    /\ pc[r] = "commit"
    /\ pc'[r] = "clear_caches" \/ (pc'[r] = "done" /\ result'[r] = Ok)

\* C25: the commit of an invocation raises each user's balance by the sum
\* of the amounts of the records it inserts for that user, which are the
\* invocation's own, one for each payout it pushed and no two for the same
\* user and project; every record has a positive amount and the start of
\* its invocation's target day as its day.
C25_LedgerMatchesBalance ==
    /\ [][\A r \in Runs :
            Commits(r) =>
                LET inserted == payouts_values' \ payouts_values
                IN  /\ \A u \in UserIds :
                           balance'[u] - balance[u] =
                               SumAmounts({ row \in inserted : row.user_id = u })
                    /\ \A row \in inserted : row.run = r
                    /\ Cardinality(inserted) = Len(insert_rows[r])
                    /\ \A a, b \in inserted :
                           (a.user_id = b.user_id /\ a.mod_id = b.mod_id) => a = b]_vars
    /\ [][payouts_values' # payouts_values \/ balance' # balance =>
            \E r \in Runs : Commits(r)]_vars
    /\ [](\A row \in payouts_values :
            row.amount > DecimalZero /\ row.created = start[row.run])

\* An invocation has committed two records for a user who belongs to two
\* projects, and another for a second user.
C25_Witness ==
    \E r \in Runs : \E a, b, c \in RowsOf(r) :
        /\ a.user_id = b.user_id
        /\ a.mod_id # b.mod_id
        /\ c.user_id # a.user_id
        /\ balance[a.user_id] = DecimalAdd(a.amount, b.amount)
        /\ balance[c.user_id] = c.amount

\* The invocation ended in the panic of Decimal's division by zero.
DividedByZero(r) == Returned(r) /\ result[r] = Err("panic")

\* C13: no run divides by zero.  A project whose splits sum to zero gets no
\* payout and the run goes on; and no run ends in the division of a project
\* weight by a grand total weight of zero, whatever the four analytics
\* queries and the team query return.  Line 677 divides by multipliers.sum
\* unguarded: refuted.
C13_NoDivisionByZero ==
    \A r \in Runs :
        /\ ~DividedByZero(r)
        /\ InLoop(r) =>
               \A id \in DOMAIN projects_map[r] :
                   SumSplits(projects_map[r][id]) = DecimalZero =>
                       \A t \in Computed(r) : t[1] # id

\* The credential cache alone.
CredentialInit ==
    /\ InitPayout(NoStore)
    /\ now = 0
    /\ InitCredential
    /\ paypal_answers = { Answer(TRUE, JsonNull), NotSent }
    /\ InitCatalog(<< >>, {})
    /\ InitLocks

SpecCredential == CredentialInit /\ [][NextCredential]_vars

(***************************************************************************)
(* The credential cache: what the claims speak of.                         *)
(***************************************************************************)
\* C4: no duplicate refreshes.  A caller that reaches the exclusive section
\* sends a token request only while the cached credential is still absent or
\* expired; one that finds the credential its predecessor stored reuses it.
\* refresh_token has no such check (lines 57-95): refuted.
C4_NoDuplicateRefresh ==
    \A c \in Callers :
        cpc[c] = "token_request" => NeedsRefresh(credential, now)

InsertAlways(map, user_id, fresh) == fresh

\* Lines 511-514: entry(user_id).or_insert_with(|| Arc::new(Mutex::new(())))
\* under the lock of the map's shard.
EntryOrInsert(map, user_id, fresh) ==
    IF user_id \in DOMAIN map THEN map[user_id] ELSE fresh

\* The map with the entry of the user set to the handle.
Insert(map, user_id, handle) ==
    [ u \in DOMAIN map \cup { user_id } |->
        IF u = user_id THEN handle ELSE map[u] ]

\* Lines 510-515: the caller gets a clone of the handle of the user.
LockUserPayouts(c, user_id) ==
    /\ lpc[c] = "idle"
    /\ LET handle == EntryOrInsert(payouts_locks, user_id, Len(mutexes) + 1)
       IN  /\ payouts_locks' = Insert(payouts_locks, user_id, handle)
           /\ mutexes' = IF handle > Len(mutexes)
                          THEN Append(mutexes, NoCaller)
                          ELSE mutexes
           /\ lhandle' = [ lhandle EXCEPT ![c] = handle ]
    /\ luser' = [ luser EXCEPT ![c] = user_id ]
    /\ lpc' = [ lpc EXCEPT ![c] = "lock" ]
    /\ UNCHANGED << now, payoutVars, credentialVars, catalogVars >>

\* Mutex::lock() on the handle returns once nobody holds the mutex.
Lock(c) ==
    /\ lpc[c] = "lock"
    /\ mutexes[lhandle[c]] = NoCaller
    /\ mutexes' = [ mutexes EXCEPT ![lhandle[c]] = c ]
    /\ lpc' = [ lpc EXCEPT ![c] = "locked" ]
    /\ UNCHANGED << payouts_locks, luser, lhandle >>
    /\ UNCHANGED << now, payoutVars, credentialVars, catalogVars >>

\* The guard is dropped.
Unlock(c) ==
    /\ lpc[c] = "locked"
    /\ mutexes' = [ mutexes EXCEPT ![lhandle[c]] = NoCaller ]
    /\ lpc' = [ lpc EXCEPT ![c] = "unlocked" ]
    /\ UNCHANGED << payouts_locks, luser, lhandle >>
    /\ UNCHANGED << now, payoutVars, credentialVars, catalogVars >>

\* The caller's clone of the handle is dropped; the map keeps its own.
DropHandle(c) ==
    /\ lpc[c] = "unlocked"
    /\ lpc' = [ lpc EXCEPT ![c] = "done" ]
    /\ lhandle' = [ lhandle EXCEPT ![c] = 0 ]
    /\ UNCHANGED << payouts_locks, mutexes, luser >>
    /\ UNCHANGED << now, payoutVars, credentialVars, catalogVars >>

NextLocks ==
    \E c \in Callers :
        \/ \E user_id \in UserIds : LockUserPayouts(c, user_id)
        \/ Lock(c)
        \/ Unlock(c)
        \/ DropHandle(c)

\* The lock registry alone.
LocksInit ==
    /\ InitPayout(NoStore)
    /\ now = 0
    /\ InitCredential
    /\ paypal_answers = {}
    /\ InitCatalog(<< >>, {})
    /\ InitLocks

SpecLocks == LocksInit /\ [][NextLocks]_vars

\* The caller has a handle, locked or not.
HasHandle(c) == lpc[c] \in { "lock", "locked", "unlocked" }

\* C6: per-user mutual exclusion.  At most one caller holds the lock of a
\* user; callers of the same user have the same handle, callers of different
\* users have different handles; a caller waits on its handle only while
\* another caller holds the lock of the same user.
C6_PerUserMutualExclusion ==
    \A c, d \in Callers :
        /\ (c # d /\ lpc[c] = "locked" /\ lpc[d] = "locked") => luser[c] # luser[d]
        /\ (HasHandle(c) /\ HasHandle(d)) =>
                (luser[c] = luser[d] <=> lhandle[c] = lhandle[d])
        /\ (lpc[c] = "lock" /\ mutexes[lhandle[c]] # NoCaller) =>
                LET holder == mutexes[lhandle[c]]
                IN  lpc[holder] = "locked" /\ luser[holder] = luser[c]

\* Two callers got the handle of a user the map did not have before the first
\* of them; one holds the lock and the other waits for it.
C6_Witness ==
    \E c, d \in Callers :
        /\ lpc[c] = "locked"
        /\ lpc[d] = "lock"
        /\ luser[c] = luser[d]
        /\ lhandle[c] = lhandle[d]
        /\ mutexes[lhandle[d]] = c

(***************************************************************************)
(* refresh_payout_methods: the products of the gateway.  A name is the     *)
(* sequence of the code points of the String, which String::cmp compares   *)
(* one by one: "A" is << 65 >>, "a" is << 97 >>.                           *)
(***************************************************************************)
Sku(min, max) == [ min |-> DecimalFrom(min), max |-> DecimalFrom(max) ]

Product(id, category, name, skus, currency_codes) ==
    [ id |-> id, category |-> category, name |-> name, skus |-> skus,
      currency_codes |-> currency_codes,
      countries |-> << [ abbr |-> "US" ] >>,
      images |-> << [ src |-> "logo.png", type_ |-> "Logo" ],
                    [ src |-> "card.png", type_ |-> "Card" ] >> ]

\* The products a gateway may offer: up-rank, down-rank and unlisted ids, a
\* deny-listed id, a category that is not supported, zero, one and several
\* skus, with and without USD.
Products ==
    { Product("ET0ZVETV5ILN", "merchant_cards", << 66 >>,
              << Sku(25, 25), Sku(10, 10) >>, << "USD" >>),
      Product("Q24BD9EZ332JT", "visa", << 65 >>,
              << Sku(5, 500) >>, << "USD" >>),
      Product("EIPF8Q00EMM1", "merchant_cards", << 65 >>,
              << >>, << "EUR" >>),
      Product("OU2MWXYWPNWQ", "bank", << 97 >>,
              << Sku(1, 100) >>, << "USD" >>),
      Product("KV934TZ93NQM", "merchant_cards", << 65, 66 >>,
              << Sku(50, 50), Sku(20, 20) >>, << "EUR", "USD" >>),
      Product("4Q5KZPC3X1SU", "ach", << 65, 66 >>,
              << Sku(1, 1000) >>, << "USD" >>),
      Product("SRDHFATO9KHN", "merchant_cards", << 67 >>,
              << Sku(10, 10), Sku(20, 20) >>, << "EUR" >>),
      Product("A2J05SWPI2QG", "visa_card", << 65 >>,
              << Sku(5, 500) >>, << "USD" >>),
      Product("2PSH0C1VB4QL", "charities", << 65 >>,
              << Sku(1, 100) >>, << "USD" >>) }

\* The longest product list the gateway answers with.
MaxProducts == 3

\* The product lists: no product twice.
ProductLists ==
    UNION { { l \in [ 1..n -> Products ] :
                \A i, j \in 1..n : l[i] = l[j] => i = j } : n \in 0..MaxProducts }

\* Lines 315-348.
BLACKLISTED_IDS ==
    { "A2J05SWPI2QG",
      "1UOOSHUUYTAM", "5EVJN47HPDFT", "NI9M4EVAVGFJ", "VLY29QHTMNGT",
      "7XU98H109Y3A", "0CGEDFP2UIKV", "PDYLQU0K073Y", "HCS5Z7O2NV5G",
      "IY1VMST1MOXS", "VRPZLJ7HCA8X",
      "GWQQS5RM8IZS", "896MYD4SGOGZ", "PWLEN1VZGMZA", "A2VRM96J5K5W",
      "HV9ICIM3JT7P", "K2KLSPVWC2Q4", "HRBRQLLTDF95", "UUBYLZVK7QAB",
      "BH8W3XEDEOJN", "7WGE043X1RYQ", "2B13MHUZZVTF", "JN6R44P86EYX",
      "DA8H43GU84SO", "QK2XAQHSDEH4", "J7K1IQFS76DK", "NL4JQ2G7UPRZ",
      "OEFTMSBA5ELH", "A3CQK6UHNV27" }

\* Lines 349-350.
SUPPORTED_METHODS == { "merchant_cards", "visa", "bank", "ach", "visa_card" }

\* Line 413.
UPRANK_IDS == { "ET0ZVETV5ILN", "Q24BD9EZ332JT", "UIL1ZYJU5MKN" }

\* Line 414.
DOWNRANK_IDS == { "EIPF8Q00EMM1", "OU2MWXYWPNWQ" }

\* Mutant: the deny-list is not consulted.
IsSkippedByCategory(product) == product.category \notin SUPPORTED_METHODS

\* Lines 352-356: the product is skipped.
IsSkipped(product) ==
    \/ product.category \notin SUPPORTED_METHODS
    \/ product.id \in BLACKLISTED_IDS

RECURSIVE SortDecimals(_)
\* Line 374: values.sort_by(|a, b| a.0.cmp(&b.0))
SortDecimals(values) ==
    IF values = << >> THEN << >>
    ELSE LET least == Min(Range(values))
             i == CHOOSE k \in 1..Len(values) : values[k] = least
         IN  << least >> \o
             SortDecimals(SubSeq(values, 1, i - 1) \o SubSeq(values, i + 1, Len(values)))

\* Lines 368-387.
Interval(skus) ==
    IF Len(skus) > 1
    THEN [ kind |-> "Fixed",
           values |-> SortDecimals([ k \in 1..Len(skus) |-> skus[k].min ]) ]
    ELSE IF skus # << >>
    THEN [ kind |-> "Standard", min |-> skus[1].min, max |-> skus[1].max ]
    ELSE [ kind |-> "Standard", min |-> DecimalZero, max |-> DecimalFrom(5000) ]

\* Lines 388-400.
Fee(category) ==
    IF category = "ach"
    THEN [ percentage |-> DecimalDiv(DecimalFrom(4), DecimalFrom(100)),
           min |-> DecimalDiv(DecimalFrom(1), DecimalFrom(4)),
           max |-> NoValue ]
    ELSE [ percentage |-> DecimalZero, min |-> DecimalZero, max |-> NoValue ]

\* Lines 363-367: the src of the first image of type Card.
ImageUrl(images) ==
    LET cards == SelectSeq(images, LAMBDA x : x.type_ = "Card")
    IN  IF cards = << >> THEN NoValue ELSE [ some |-> cards[1].src ]

\* Lines 358-401.
Method(product) ==
    [ id |-> product.id,
      type_ |-> "Tremendous",
      name |-> product.name,
      supported_countries |->
          [ k \in 1..Len(product.countries) |-> product.countries[k].abbr ],
      image_url |-> ImageUrl(product.images),
      interval |-> Interval(product.skus),
      fee |-> Fee(product.category) ]

\* Lines 403-408: a Fixed method of a product without USD is dropped.
IsDropped(product, method) ==
    method.interval.kind = "Fixed" /\ "USD" \notin Range(product.currency_codes)

RECURSIVE Methods(_)
\* Lines 314-411: the methods pushed, in the order of the products.
Methods(products) ==
    IF products = << >> THEN << >>
    ELSE LET product == Head(products)
             method == Method(product)
         IN  (IF IsSkipped(product) \/ IsDropped(product, method)
              THEN << >> ELSE << method >>)
             \o Methods(Tail(products))

RECURSIVE NameCmp(_, _)
\* Lines 423, 424, 429: a.name.cmp(&b.name), String's lexicographic order.
NameCmp(a, b) ==
    IF a = << >> THEN (IF b = << >> THEN "Equal" ELSE "Less")
    ELSE IF b = << >> THEN "Greater"
    ELSE IF Head(a) < Head(b) THEN "Less"
    ELSE IF Head(a) > Head(b) THEN "Greater"
    ELSE NameCmp(Tail(a), Tail(b))

\* Mutant: the names alone decide.
CompareNames(a, b) == NameCmp(a.name, b.name)

\* Lines 416-431: the comparator, its arms in the order of the match.
Compare(a, b) ==
    LET a_top == a.id \in UPRANK_IDS
        a_bottom == a.id \in DOWNRANK_IDS
        b_top == b.id \in UPRANK_IDS
        b_bottom == b.id \in DOWNRANK_IDS
    IN  IF a_top /\ b_top THEN NameCmp(a.name, b.name)
        ELSE IF a_bottom /\ b_bottom THEN NameCmp(a.name, b.name)
        ELSE IF a_top THEN "Less"
        ELSE IF b_top THEN "Greater"
        ELSE IF a_bottom THEN "Greater"
        ELSE IF b_bottom THEN "Less"
        ELSE NameCmp(a.name, b.name)

RECURSIVE InsertSorted(_, _)
\* The method goes before the first method it is Less than.
InsertSorted(sorted, method) ==
    IF sorted = << >> THEN << method >>
    ELSE IF Compare(method, Head(sorted)) = "Less" THEN << method >> \o sorted
    ELSE << Head(sorted) >> \o InsertSorted(Tail(sorted), method)

RECURSIVE SortBy(_)
\* Line 416: methods.sort_by(..), a stable sort.
SortBy(methods) ==
    IF methods = << >> THEN << >>
    ELSE InsertSorted(SortBy(SubSeq(methods, 1, Len(methods) - 1)),
                      methods[Len(methods)])

\* Lines 434-449.
paypal_us ==
    [ id |-> "paypal_us",
      type_ |-> "PayPal",
      name |-> << 80, 97, 121, 80, 97, 108 >>,
      supported_countries |-> << "US" >>,
      image_url |-> NoValue,
      interval |-> [ kind |-> "Standard",
                     min |-> DecimalDiv(DecimalFrom(1), DecimalFrom(4)),
                     max |-> DecimalFrom(100000) ],
      fee |-> [ percentage |-> DecimalDiv(DecimalFrom(2), DecimalFrom(100)),
                min |-> DecimalDiv(DecimalFrom(1), DecimalFrom(4)),
                max |-> [ some |-> DecimalFrom(1) ] ] ]

\* Lines 451-454.
venmo ==
    [ paypal_us EXCEPT !.id = "venmo",
                       !.name = << 86, 101, 110, 109, 111 >>,
                       !.type_ = "Venmo" ]

\* rust_iso3166::ALL, three of its countries.
AllCountries == << "DE", "IN", "US" >>

\* Lines 462-481.
paypal_in ==
    [ id |-> "paypal_in",
      type_ |-> "PayPal",
      name |-> << 80, 97, 121, 80, 97, 108 >>,
      supported_countries |-> SelectSeq(AllCountries, LAMBDA x : x # "US"),
      image_url |-> NoValue,
      interval |-> [ kind |-> "Standard",
                     min |-> DecimalDiv(DecimalFrom(1), DecimalFrom(4)),
                     max |-> DecimalFrom(100000) ],
      fee |-> [ percentage |-> DecimalDiv(DecimalFrom(2), DecimalFrom(100)),
                min |-> DecimalZero,
                max |-> [ some |-> DecimalFrom(20) ] ] ]

\* methods.insert(index, element), index counted from 0.
InsertAt(methods, index, element) ==
    SubSeq(methods, 1, index) \o << element >> \o
    SubSeq(methods, index + 1, Len(methods))

\* Mutant: the three methods are pushed at the end.
PushSynthetic(methods) == methods \o << paypal_us, venmo, paypal_in >>

\* Lines 456, 457, 460-482.
InsertSynthetic(methods) ==
    InsertAt(InsertAt(InsertAt(methods, 0, paypal_us), 1, venmo), 2, paypal_in)

\* Line 486: Duration::hours(6)
OptionsTtl == 6

\* Mutant: the options expire as they are stored.
OptionsWithoutTtl(products, t) ==
    [ options |-> InsertSynthetic(SortBy(Methods(products))),
      expires |-> t ]

\* Lines 314-487: the PayoutMethods made of a response received at t.
NewOptions(products, t) ==
    [ options |-> InsertSynthetic(SortBy(Methods(products))),
      expires |-> t + OptionsTtl ]

(***************************************************************************)
(* make_tremendous_request, X being TremendousResponse.                    *)
(***************************************************************************)
\* The value is one of the model's JSON values (a Product stands for the
\* JSON object it is read from).
IsJson(value) == "kind" \in DOMAIN value

\* A JSON array of objects that deserialize as Products.
IsProductArray(value) ==
    /\ IsJson(value)
    /\ value.kind = "array"
    /\ \A i \in 1..Len(value.items) : value.items[i] \in Products

\* serde_json::from_value::<TremendousResponse>: from an object whose
\* products is an array of products, or from an array of that one field.
FromValueProducts(value) ==
    IF value.kind = "object"
    THEN IF "products" \in DOMAIN value.fields /\ IsProductArray(value.fields["products"])
         THEN OkWith(value.fields["products"].items)
         ELSE Err("json")
    ELSE IF value.kind = "array"
    THEN IF Len(value.items) = 1 /\ IsProductArray(value.items[1])
         THEN OkWith(value.items[1].items)
         ELSE Err("json")
    ELSE Err("json")

\* Lines 237-256: what is returned for a status that is no success; a body
\* that is no object falls through to line 258.
TremendousError(value) ==
    IF value.kind = "object"
    THEN IF "errors" \in DOMAIN value.fields
         THEN LET err == FromValue(value.fields["errors"], << "message" >>)
              IN  IF err # NoValue THEN Err(err.some[1])
                  ELSE Err("could not retrieve Tremendous error json body")
         ELSE Err("could not retrieve Tremendous error body")
    ELSE FromValueProducts(value)

\* Lines 226-258: what make_tremendous_request returns for an answer.
TremendousResult(answer) ==
    IF ~answer.sent THEN Err("could not communicate with Tremendous")
    ELSE IF ~answer.json THEN Err("could not retrieve Tremendous response body")
    ELSE IF ~answer.success THEN TremendousError(answer.body)
    ELSE FromValueProducts(answer.body)

\* The body of GET products with the given products.
ProductsBody(products) == JsonObject([ k \in { "products" } |-> JsonArray(products) ])

\* The bodies of the Tremendous answers: objects with and without errors,
\* with and without products, arrays, scalars.
TremendousBodies(products) ==
    { ProductsBody(products),
      ProductsBody(<< >>),
      JsonObject([ k \in { "errors" } |->
                     JsonObject([ j \in { "message" } |-> JsonString("Unauthorized") ]) ]),
      JsonObject([ k \in { "errors" } |-> JsonObject(EmptyMap) ]),
      JsonObject([ k \in { "errors" } |-> JsonArray(<< JsonString("Unauthorized") >>) ]),
      JsonObject([ k \in { "errors" } |-> JsonString("Unauthorized") ]),
      JsonObject([ k \in { "message" } |-> JsonString("Unauthorized") ]),
      JsonObject(EmptyMap),
      JsonArray(<< JsonArray(products) >>),
      JsonArray(<< JsonArray(<< >>) >>),
      JsonArray(<< JsonString("Unauthorized") >>),
      JsonArray(<< >>),
      JsonString("Unauthorized"), JsonNumber(1), JsonNull }

TremendousAnswers(products) ==
    { NotSent, NotJson(TRUE), NotJson(FALSE) }
    \cup { Answer(success, body) :
             success \in BOOLEAN, body \in TremendousBodies(products) }

(***************************************************************************)
(* get_payout_methods.                                                     *)
(***************************************************************************)
\* get_payout_methods is called: line 494, self.payout_options.read() is
\* awaited.  The calls are numbered in the order they are made.
CallGetPayoutMethods(c) ==
    /\ opc[c] = "idle"
    /\ \A d \in Callers : d < c => opc[d] # "idle"
    /\ opc' = [ opc EXCEPT ![c] = "read" ]
    /\ options_lock' = Enqueue(options_lock, c, "read")
    /\ UNCHANGED << payout_options, response, options, product_requests,
                    upstream, oresult, tremendous_answers, oanswer, checked_at >>
    /\ UNCHANGED << now, payoutVars, credentialVars, lockVars >>

\* Lines 494-507: the read guard is granted; cached options that have not
\* expired are cloned and their list returned, the guard dropped with the
\* call; otherwise the guard is dropped and refresh_payout_methods awaits
\* queue.payout_options.write() (line 263).
ReadOptions(c) ==
    /\ opc[c] = "read"
    /\ CanRead(options_lock, c)
    /\ IF NeedsRefresh(payout_options, now)
       THEN /\ options_lock' =
                 Enqueue(DropRead(GrantRead(options_lock, c), c), c, "write")
            /\ opc' = [ opc EXCEPT ![c] = "write" ]
            /\ UNCHANGED << options, oresult >>
       ELSE /\ options_lock' = Release(GrantRead(options_lock, c), c)
            /\ options' = [ options EXCEPT ![c] = payout_options ]
            /\ oresult' = [ oresult EXCEPT ![c] = OkWith(payout_options.options) ]
            /\ opc' = [ opc EXCEPT ![c] = "done" ]
    /\ checked_at' = [ checked_at EXCEPT ![c] = now ]
    /\ UNCHANGED << payout_options, response, product_requests, upstream,
                    tremendous_answers, oanswer >>
    /\ UNCHANGED << now, payoutVars, credentialVars, lockVars >>

\* Lines 263-312: the write guard is granted and GET products is sent.
SendProductsRequest(c) ==
    /\ opc[c] = "write"
    /\ CanWrite(options_lock, c)
    /\ options_lock' = GrantWrite(options_lock, c)
    /\ product_requests' = product_requests + 1
    /\ opc' = [ opc EXCEPT ![c] = "products_request" ]
    /\ UNCHANGED << payout_options, response, options, upstream, oresult,
                    tremendous_answers, oanswer, checked_at >>
    /\ UNCHANGED << now, payoutVars, credentialVars, lockVars >>

\* What the cache holds after a refresh that failed; mutant: the cache is
\* emptied.
DroppedByFailure(cached) == NoValue

\* Lines 310-312: `?` returns before the store of line 489.
AfterFailedCatalogRefresh(cached) == cached

\* Lines 310-312, 498, 504: make_tremendous_request returns an error; the
\* error is returned and the write guard dropped, the cache left alone.
ProductsFailure(c) ==
    /\ opc[c] = "products_request"
    /\ \E answer \in tremendous_answers :
        /\ ~TremendousResult(answer).ok
        /\ oanswer' = [ oanswer EXCEPT ![c] = answer ]
        /\ oresult' = [ oresult EXCEPT ![c] = TremendousResult(answer) ]
    /\ payout_options' = AfterFailedCatalogRefresh(payout_options)
    /\ options_lock' = Release(options_lock, c)
    /\ opc' = [ opc EXCEPT ![c] = "done" ]
    /\ UNCHANGED << response, options, product_requests, upstream,
                    tremendous_answers, checked_at >>
    /\ UNCHANGED << now, payoutVars, credentialVars, lockVars >>

\* Lines 310-507: make_tremendous_request returns products; the methods are
\* built, sorted, completed and stored with their expiry, and the list is
\* returned.
ProductsResponse(c) ==
    /\ opc[c] = "products_request"
    /\ \E answer \in tremendous_answers :
        /\ TremendousResult(answer).ok
        /\ oanswer' = [ oanswer EXCEPT ![c] = answer ]
        /\ response' = [ response EXCEPT ![c] = TremendousResult(answer).value ]
        /\ LET new_options == NewOptions(TremendousResult(answer).value, now)
           IN  /\ payout_options' = new_options
               /\ options' = [ options EXCEPT ![c] = new_options ]
               /\ oresult' = [ oresult EXCEPT ![c] = OkWith(new_options.options) ]
    /\ options_lock' = Release(options_lock, c)
    /\ opc' = [ opc EXCEPT ![c] = "done" ]
    /\ UNCHANGED << product_requests, upstream, tremendous_answers, checked_at >>
    /\ UNCHANGED << now, payoutVars, credentialVars, lockVars >>

NextCatalog ==
    \E c \in Callers :
        \/ CallGetPayoutMethods(c)
        \/ ReadOptions(c)
        \/ SendProductsRequest(c)
        \/ ProductsFailure(c)
        \/ ProductsResponse(c)

\* The last hour the clock of the catalog reaches.
LastHour == 7

\* An hour passes.
TickHour ==
    /\ now < LastHour
    /\ now' = now + 1
    /\ UNCHANGED << credentialVars, payoutVars, catalogVars, lockVars >>

\* The catalog alone, at one instant, with any product list.
CatalogInit ==
    /\ InitPayout(NoStore)
    /\ now = 0
    /\ InitCredential
    /\ paypal_answers = {}
    /\ \E products \in ProductLists :
        InitCatalog(products, { NotSent, Answer(TRUE, ProductsBody(products)) })
    /\ InitLocks

SpecCatalog == CatalogInit /\ [][NextCatalog]_vars

(***************************************************************************)
(* The catalog: what the claims speak of.                                  *)
(***************************************************************************)
\* The lists to be found: the one in the cache, the ones the calls returned.
Catalogs ==
    (IF payout_options = NoValue THEN {} ELSE { payout_options.options })
    \cup { oresult[c].value :
             c \in { d \in Callers : oresult[d] # NoValue /\ oresult[d].ok } }

\* The methods of a list that were made of a product.
ThirdParty(catalog) == SelectSeq(catalog, LAMBDA m : m.type_ = "Tremendous")

\* A refresh has stored its list and a later call was served from the cache.
ServedFromCache ==
    /\ payout_options # NoValue
    /\ \E c \in Callers :
        /\ opc[c] = "done"
        /\ response[c] = << >>
        /\ oresult[c] = OkWith(payout_options.options)

\* C7: a list returned or cached has no method with a deny-listed id, no
\* method of a product whose category is not supported, and no Fixed method
\* of a product that does not list USD.
C7_CatalogFilter ==
    \A catalog \in Catalogs : \A i \in 1..Len(catalog) :
        LET m == catalog[i]
        IN  /\ m.id \notin BLACKLISTED_IDS
            /\ m.type_ = "Tremendous" =>
                   \E p \in Range(upstream) :
                       /\ p.id = m.id
                       /\ p.category \in SUPPORTED_METHODS
                       /\ m.interval.kind = "Fixed" =>
                              "USD" \in Range(p.currency_codes)

\* The gateway offers a deny-listed product, a product of a category that is
\* not supported and a product of several skus without USD; the list was
\* refreshed and then served from the cache.
C7_Witness ==
    /\ ServedFromCache
    /\ \E p \in Range(upstream) : p.id \in BLACKLISTED_IDS
    /\ \E p \in Range(upstream) : p.category \notin SUPPORTED_METHODS
    /\ \E p \in Range(upstream) :
        /\ ~IsSkipped(p)
        /\ Len(p.skus) > 1
        /\ "USD" \notin Range(p.currency_codes)

\* The rank of a method: up-rank, unlisted, down-rank.
Tier(m) ==
    IF m.id \in UPRANK_IDS THEN 0 ELSE IF m.id \in DOWNRANK_IDS THEN 2 ELSE 1

Reverse(ordering) ==
    IF ordering = "Less" THEN "Greater"
    ELSE IF ordering = "Greater" THEN "Less"
    ELSE "Equal"

\* The comparator is a consistent ordering of the methods of all products.
ComparatorIsConsistent ==
    LET all == { Method(p) : p \in Products }
    IN  /\ \A a, b \in all : Compare(a, b) = Reverse(Compare(b, a))
        /\ \A a, b, c \in all :
               (Compare(a, b) # "Greater" /\ Compare(b, c) # "Greater")
                   => Compare(a, c) # "Greater"
        /\ \A a, b, c \in all :
               (Compare(a, b) = "Less" /\ Compare(b, c) # "Greater")
                   => Compare(a, c) = "Less"

\* C8: among the methods made of products, up-rank methods come before
\* unlisted ones and unlisted ones before down-rank ones; within a rank the
\* names ascend in the order of String; the comparator is antisymmetric and
\* transitive.
C8_CatalogRanking ==
    /\ ComparatorIsConsistent
    /\ \A catalog \in Catalogs :
        LET t == ThirdParty(catalog)
        IN  \A i, j \in 1..Len(t) :
                i < j =>
                    \/ Tier(t[i]) < Tier(t[j])
                    \/ /\ Tier(t[i]) = Tier(t[j])
                       /\ NameCmp(t[i].name, t[j].name) # "Greater"

\* The gateway lists a down-rank product first and an up-rank product last,
\* with an unlisted one somewhere; all three are in the refreshed list.
C8_Witness ==
    /\ payout_options # NoValue
    /\ Len(upstream) >= 3
    /\ upstream[1].id \in DOWNRANK_IDS
    /\ upstream[Len(upstream)].id \in UPRANK_IDS
    /\ { Tier(m) : m \in Range(ThirdParty(payout_options.options)) } = { 0, 1, 2 }

\* C9: a refreshed list starts with paypal_us, venmo and paypal_in, in that
\* order, and every method after them was made of a product.
C9_SyntheticFirst ==
    \A catalog \in Catalogs :
        /\ Len(catalog) >= 3
        /\ catalog[1] = paypal_us
        /\ catalog[2] = venmo
        /\ catalog[3] = paypal_in
        /\ \A i \in 4..Len(catalog) : catalog[i].type_ = "Tremendous"

\* A refreshed list with an up-rank method right after the three.
C9_Witness ==
    /\ payout_options # NoValue
    /\ Len(payout_options.options) > 4
    /\ payout_options.options[4].id \in UPRANK_IDS
    /\ \E c \in Callers : oresult[c] = OkWith(payout_options.options)

(***************************************************************************)
(* make_paypal_request on each answer of the PayPal endpoint, at one       *)
(* instant.                                                                *)
(***************************************************************************)
NextPaypal ==
    \E c \in Callers :
        \/ CallPaypal(c)
        \/ ReadCredential(c)
        \/ SendTokenRequest(c)
        \/ TokenResponse(c)
        \/ PaypalResponse(c)

PaypalInit ==
    /\ InitPayout(NoStore)
    /\ now = 0
    /\ InitCredential
    /\ \E answer \in PaypalAnswers : paypal_answers = { answer }
    /\ InitCatalog(<< >>, {})
    /\ InitLocks

SpecPaypal == PaypalInit /\ [][NextPaypal]_vars

\* The body is an object that has each of the keys with a string.
HasStrings(value, keys) ==
    /\ value.kind = "object"
    /\ \A k \in keys : k \in DOMAIN value.fields /\ value.fields[k].kind = "string"

\* The call got an answer with a JSON body and a status that is no success.
GotErrorStatus(answer) ==
    answer # NoValue /\ answer.sent /\ answer.json /\ ~answer.success

\* C14: a call whose answer has a status that is no success returns an
\* error: with name and message for a body {name, message}; otherwise with
\* error and error_description for a body {error, error_description};
\* otherwise "could not retrieve PayPal error body".  An array of two strings
\* is none of the two objects and yet read as the first: refuted.
C14_PaypalErrorMapping ==
    \A c \in Callers :
        (cpc[c] = "done" /\ GotErrorStatus(canswer[c])) =>
            LET body == canswer[c].body
            IN  /\ ~cresult[c].ok
                /\ cresult[c] =
                    IF HasStrings(body, { "name", "message" })
                    THEN ErrorNameMessage(body.fields["name"].s, body.fields["message"].s)
                    ELSE IF HasStrings(body, { "error", "error_description" })
                    THEN ErrorNameMessage(body.fields["error"].s,
                                          body.fields["error_description"].s)
                    ELSE Err("could not retrieve PayPal error body")

\* What make_paypal_request returns when refresh_token fails (lines 120-129).
AuthenticationError == Err("Error while authenticating with PayPal")

\* The step in which the token request of a call fails.
RefreshFails(c) == cpc[c] = "token_request" /\ cpc'[c] = "done"

\* C16: a call whose token request fails returns the authentication error,
\* has sent that one token request and nothing to the gateway endpoint, and
\* the step that fails leaves the cached credential as it is.
C16_FailedRefresh ==
    /\ [](\A c \in Callers :
            (cpc[c] = "done" /\ cresult[c] = AuthenticationError) =>
                (csent[c] = << "oauth2/token" >> /\ canswer[c] = NoValue))
    /\ [][\A c \in Callers :
            RefreshFails(c) =>
                (credential' = credential /\ cresult'[c] = AuthenticationError)]_vars

\* The refresh of an expired credential has failed: the call has returned
\* the error and the expired credential is still in the cache.
C16_Witness ==
    \E c \in Callers :
        /\ cpc[c] = "done"
        /\ cresult[c] = AuthenticationError
        /\ csent[c] = << "oauth2/token" >>
        /\ credential # NoValue
        /\ credential.expires < now

(***************************************************************************)
(* make_tremendous_request: the answers of the gateway.                    *)
(***************************************************************************)
\* One product that is kept as a method.
VisaProducts ==
    << Product("Q24BD9EZ332JT", "visa", << 65 >>, << Sku(5, 500) >>, << "USD" >>) >>

\* The gateway gives one answer, any of them, to every products request.
TremendousInit ==
    /\ InitPayout(NoStore)
    /\ now = 0
    /\ InitCredential
    /\ paypal_answers = {}
    /\ \E answer \in TremendousAnswers(VisaProducts) :
        InitCatalog(VisaProducts, { answer })
    /\ InitLocks

SpecTremendous == TremendousInit /\ [][NextCatalog]_vars

\* The message of an error body {"errors": {"message": ...}}.
HasErrorMessage(value) ==
    /\ value.kind = "object"
    /\ "errors" \in DOMAIN value.fields
    /\ HasStrings(value.fields["errors"], { "message" })

\* C15: a call whose products request got a status that is no success
\* returns an error, whatever the JSON body is, and the message of the body
\* when the body is {"errors": {"message": ...}}.  A body that is an array
\* holding one array of products is returned as the products of a success.
C15_TremendousErrorMapping ==
    \A c \in Callers :
        (opc[c] = "done" /\ GotErrorStatus(oanswer[c])) =>
            /\ ~oresult[c].ok
            /\ HasErrorMessage(oanswer[c].body) =>
                   oresult[c] = Err(oanswer[c].body.fields["errors"].fields["message"].s)
(***************************************************************************)
(* The catalog cache over the hours.                                       *)
(***************************************************************************)
\* The gateway fails, or offers one product, or none.
CacheInit ==
    /\ InitPayout(NoStore)
    /\ now = 0
    /\ InitCredential
    /\ paypal_answers = {}
    /\ InitCatalog(VisaProducts,
                   { NotSent, Answer(TRUE, ProductsBody(VisaProducts)),
                     Answer(TRUE, ProductsBody(<< >>)) })
    /\ InitLocks

NextCache == NextCatalog \/ TickHour

SpecCache == CacheInit /\ [][NextCache]_vars

\* The steps of a call: its check of the cache (line 496), the end of its
\* refresh with an error, with a list.
Checks(c) == opc[c] = "read" /\ opc'[c] # "read"

CatalogRefreshFails(c) ==
    opc[c] = "products_request" /\ opc'[c] = "done" /\ ~oresult'[c].ok

CatalogRefreshSucceeds(c) ==
    opc[c] = "products_request" /\ opc'[c] = "done" /\ oresult'[c].ok

C18_CatalogTtl ==
    /\ [][\A c \in Callers :
            CatalogRefreshSucceeds(c) =>
                payout_options' = [ options |-> oresult'[c].value,
                                    expires |-> now + OptionsTtl ]]_vars
    /\ [][\A c \in Callers :
            (Checks(c) /\ payout_options # NoValue) =>
                IF now <= payout_options.expires
                THEN /\ opc'[c] = "done"
                     /\ oresult'[c] = OkWith(payout_options.options)
                     /\ product_requests' = product_requests
                     /\ oanswer'[c] = NoValue
                ELSE opc'[c] = "write"]_vars
    /\ [][\A c \in Callers :
            /\ opc[c] = "write" => opc'[c] \in { "write", "products_request" }
            /\ (opc[c] # "products_request" /\ opc'[c] = "products_request") =>
                   product_requests' = product_requests + 1
            /\ (opc[c] # "done" /\ opc'[c] = "done") =>
                   opc[c] \in { "read", "products_request" }]_vars
    /\ [][payout_options' # payout_options =>
            \E c \in Callers : CatalogRefreshSucceeds(c)]_vars

\* A list with a method made of a product was stored at hour 0 and returned
\* from the cache to a call that checked it at hour 6.
C18_Witness ==
    \E c \in Callers :
        /\ opc[c] = "done"
        /\ oanswer[c] = NoValue
        /\ payout_options # NoValue
        /\ payout_options.expires = OptionsTtl
        /\ checked_at[c] = payout_options.expires
        /\ oresult[c] = OkWith(payout_options.options)
        /\ ThirdParty(payout_options.options) # << >>

(***************************************************************************)
(* Two invocations of process_payout for one day.                          *)
(***************************************************************************)
\* C19: of two invocations for the same day at most one commits records, so
\* that no user has two records for one project and day.  Both pass the
\* guard of lines 531-540 when neither has committed, and both commit.
C19_AtMostOneCommits ==
    \A a, b \in payouts_values :
        (a.user_id = b.user_id /\ a.mod_id = b.mod_id /\ a.created = b.created) =>
            a.run = b.run

(***************************************************************************)
(* The two caches side by side.                                            *)
(***************************************************************************)
CachesInit ==
    /\ InitPayout(NoStore)
    /\ now = 0
    /\ InitCredential
    /\ paypal_answers = { Answer(TRUE, JsonNull) }
    /\ InitCatalog(VisaProducts, { NotSent, Answer(TRUE, ProductsBody(VisaProducts)) })
    /\ InitLocks

NextCaches == NextPaypal \/ NextCatalog

SpecCaches == CachesInit /\ [][NextCaches]_vars

\* The callers between the start of their refresh request and the store of
\* its result (or its failure).
TokenRefreshers == { c \in Callers : cpc[c] = "token_request" }

CatalogRefreshers == { c \in Callers : opc[c] = "products_request" }

\* At most one refresher, which holds the write guard, and no read guard is
\* held meanwhile.
OneRefresher(refreshers, lock) ==
    /\ Cardinality(refreshers) <= 1
    /\ \A c \in refreshers : lock.writer = c /\ lock.readers = {}
    /\ lock.writer # NoCaller => lock.writer \in refreshers

\* C20: in each cache at most one caller is between the start of its
\* refresh request and the store of its result, no caller holds a read guard
\* meanwhile, and no caller reads the cached value meanwhile.
C20_OneRefreshInFlight ==
    /\ [](OneRefresher(TokenRefreshers, credential_lock))
    /\ [](OneRefresher(CatalogRefreshers, options_lock))
    /\ [][\A c \in Callers :
            (cpc[c] = "read" /\ cpc'[c] # "read") => TokenRefreshers = {}]_vars
    /\ [][\A c \in Callers : Checks(c) => CatalogRefreshers = {}]_vars

\* In each cache a refresh is in flight and another caller that wants to
\* refresh waits behind it.
C20_Witness ==
    /\ \E c, d \in Callers : cpc[c] = "token_request" /\ cpc[d] = "write"
    /\ \E c, d \in Callers : opc[c] = "products_request" /\ opc[d] = "write"

(***************************************************************************)
(* The two caches with a fair lock and gateways that answer.               *)
(***************************************************************************)
\* The lock grants the guard to the head of its queue when it can, a request
\* that was sent gets its answer, and the task goes on.
\* (Of the steps of one call at most one is enabled at a time.)
PaypalStep(c) ==
    \/ ReadCredential(c)
    \/ SendTokenRequest(c)
    \/ TokenResponse(c)
    \/ PaypalResponse(c)

PayoutMethodsStep(c) ==
    \/ ReadOptions(c)
    \/ SendProductsRequest(c)
    \/ ProductsFailure(c)
    \/ ProductsResponse(c)

CachesFairness ==
    \A c \in Callers : WF_vars(PaypalStep(c)) /\ WF_vars(PayoutMethodsStep(c))

SpecCachesFair == CachesInit /\ [][NextCaches]_vars /\ CachesFairness

\* The callers that await the write guard of the lock.
AwaitWrite(lock) ==
    { lock.waiters[i][1] :
        i \in { j \in 1..Len(lock.waiters) : lock.waiters[j][2] = "write" } }

\* Every call that was made has returned.
AllReturned ==
    \A c \in Callers : cpc[c] \in { "idle", "done" } /\ opc[c] \in { "idle", "done" }

\* C26: no caller awaits the write guard of a cache while it holds the read
\* guard; and every call of make_paypal_request and of get_payout_methods
\* that was made returns: from some instant on no call is under way (a
\* caller makes one call, and a call that returned stays returned).
C26_NoDeadlock ==
    /\ [](AwaitWrite(credential_lock) \cap credential_lock.readers = {})
    /\ [](AwaitWrite(options_lock) \cap options_lock.readers = {})
    /\ <>[]AllReturned

\* In each cache a call has returned a value it got from the cache, after
\* the refresh of another call, and every call has returned.
C26_Witness ==
    /\ \A c \in Callers : cpc[c] = "done" /\ opc[c] = "done"
    /\ \E c \in Callers : cresult[c].ok /\ csent[c] = << "request" >>
    /\ \E c \in Callers : cresult[c].ok /\ csent[c] = << "oauth2/token", "request" >>
    /\ \E c \in Callers : oresult[c].ok /\ oanswer[c] = NoValue
    /\ \E c \in Callers : oresult[c].ok /\ oanswer[c] # NoValue
====
